---------------------------- MODULE Spec2Model ----------------------------
(***************************************************************************)
(* Verification model of the date-partitioned dataset engine               *)
(* (mnemosyne.dataset.interface) and of the parallel executor              *)
(* (atlas.multiprocessing.ParallelMap).                                    *)
(*                                                                         *)
(* The specifications share the variables of this module:                  *)
(*   Spec      the validation / computation state machine of one dataset   *)
(*             root: sessions, valid_partition, invalid_partitions /       *)
(*             validate, compute, clear_validation_cache;                  *)
(*   SpecPM    one ParallelMap.__call__ with its worker pool, step by step *)
(*   SpecSave  one _save_validation_cache, step by step, with crashes      *)
(*   SpecChunk    ParallelMap.chunk_apply and the batches of compute        *)
(*   SpecMeta     MetadataEngine._compute_partitions over a batch of dates  *)
(*   SpecFrames   the paths on which a frame leaves the dataset             *)
(*   SpecRebuild  the instance a worker rebuilds from _get_self_kwargs      *)
(*   SpecQuery    ReturnsEngine.query                                       *)
(*   SpecBatch    ReturnsEngine.query_batch                                *)
(*   SpecGrid     grid_query of the last-trade grid                        *)
(*   SpecCache    create_ctdp_cache and delete_cache on one cache_dir      *)
(*   SpecSink     compute() on subclasses whose frames lack or add dates   *)
(*   SpecWritesOk the operations of Spec when no file write fails          *)
(*   SpecLoad     the construction of a view over any cache file text      *)
(***************************************************************************)
EXTENDS Integers, Sequences, FiniteSets, TLC

(***************************************************************************)
(* Bounds of the model.                                                    *)
(***************************************************************************)
\* largest days_per_batch a compute call is given
MaxBatch == 2
\* largest number of arguments of one ParallelMap call
MaxTasks == 3
\* worker count of the pool of the ParallelMap under test
MaxWorkers == 2
\* largest number of rows of a query on the ReturnsEngine
MaxRows == 2
\* largest number of rows of a query_batch on the ReturnsEngine
MaxBatchRows == 1
\* largest number of trades in the frame grid_query is given
MaxTrades == 3
\* largest number of fields the orchestrating instance is given a value of
\* its own for
MaxCustom == 2
\* the backend of the metadata engine holds the days 0 .. MaxDays
MaxDays == 3
\* largest number of ticks of that backend
MaxTicks == 2
\* largest number of tokens of a validated_partitions.json found at construction
MaxTokens == 3

(***************************************************************************)
(* Dates (datetime.date) and their ISO text.                               *)
(* A date is <<year, month, day>>; a string is the sequence of its         *)
(* character codes.                                                        *)
(***************************************************************************)
\* self.partitions = sorted(universe_df['date'].unique().to_list()) :
\* the universe of the dataset under test holds two dates
partitions == << <<2023, 12, 31>>, <<2024, 1, 2>> >>

\* a date that is not part of the universe (a date of an earlier universe,
\* or a stray directory under the root)
ForeignDate == <<2024, 11, 5>>

Range(s) == {s[i] : i \in DOMAIN s}

PartitionSet == Range(partitions)

AllDates == PartitionSet \cup {ForeignDate}

\* date.__lt__ : calendar order
DateLess(a, b) ==
    \/ a[1] < b[1]
    \/ a[1] = b[1] /\ a[2] < b[2]
    \/ a[1] = b[1] /\ a[2] = b[2] /\ a[3] < b[3]

Digit(n) == 48 + n

Dash == 45

\* date.isoformat() : "YYYY-MM-DD"
isoformat(d) ==
    << Digit(d[1] \div 1000), Digit((d[1] \div 100) % 10),
       Digit((d[1] \div 10) % 10), Digit(d[1] % 10), Dash,
       Digit(d[2] \div 10), Digit(d[2] % 10), Dash,
       Digit(d[3] \div 10), Digit(d[3] % 10) >>

IsDigit(c) == c >= 48 /\ c <= 57

\* the strings Date.fromisoformat accepts; anything else is a ValueError
IsIsoDate(s) ==
    /\ Len(s) = 10
    /\ s[5] = Dash /\ s[8] = Dash
    /\ \A i \in {1, 2, 3, 4, 6, 7, 9, 10} : IsDigit(s[i])

Num(c) == c - 48

\* Date.fromisoformat(s), for a string IsIsoDate accepts
fromisoformat(s) ==
    << 1000 * Num(s[1]) + 100 * Num(s[2]) + 10 * Num(s[3]) + Num(s[4]),
       10 * Num(s[6]) + Num(s[7]),
       10 * Num(s[9]) + Num(s[10]) >>

\* str.__lt__ : lexicographic order of the character codes
RECURSIVE StrLess(_, _)
StrLess(a, b) ==
    IF a = <<>> THEN b # <<>>
    ELSE IF b = <<>> THEN FALSE
    ELSE IF Head(a) # Head(b) THEN Head(a) < Head(b)
    ELSE StrLess(Tail(a), Tail(b))

\* sorted(...) of a set of strings
RECURSIVE sorted_strs(_)
sorted_strs(S) ==
    IF S = {} THEN <<>>
    ELSE LET m == CHOOSE x \in S : \A y \in S \ {x} : StrLess(x, y)
         IN  <<m>> \o sorted_strs(S \ {m})

\* sorted(...) of a list of distinct dates
RECURSIVE sorted_dates(_)
sorted_dates(S) ==
    IF S = {} THEN <<>>
    ELSE LET m == CHOOSE x \in S : \A y \in S \ {x} : DateLess(x, y)
         IN  <<m>> \o sorted_dates(S \ {m})


(***************************************************************************)
(* Files.  A file is [exists, content]; the content of a JSON file is the  *)
(* sequence of its tokens, each token a string.  A token of one character  *)
(* is punctuation or a literal that is not a string: { } [ ] 5 n(ull).     *)
(***************************************************************************)
LBrace == <<123>>

RBrace == <<125>>

LBracket == <<91>>

RBracket == <<93>>

NumberToken == <<53>>

NullToken == <<110>>

Punctuation == {LBrace, RBrace, LBracket, RBracket}

\* isinstance(token, str) of a value json.load returned
IsStr(token) == Len(token) # 1

NoFile == [exists |-> FALSE, content |-> <<>>]

\* json.dump({"valid_partitions": strs}, f, indent=2) : the text written
json_dump(strs) == <<LBrace>> \o strs \o <<RBrace>>

\* json.load(f) : [ok |-> FALSE] stands for json.JSONDecodeError; kind is
\* the type of the document: "dict" {"valid_partitions": [...]}, "list"
\* [...], "scalar" a lone string, number or null
json_load(content) ==
    IF /\ Len(content) >= 2
       /\ content[1] = LBrace
       /\ content[Len(content)] = RBrace
       /\ \A i \in 2 .. Len(content) - 1 : content[i] \notin Punctuation
    THEN [ok |-> TRUE, kind |-> "dict",
          valid_partitions |-> SubSeq(content, 2, Len(content) - 1)]
    ELSE IF /\ Len(content) >= 2
            /\ content[1] = LBracket
            /\ content[Len(content)] = RBracket
            /\ \A i \in 2 .. Len(content) - 1 : content[i] \notin Punctuation
    THEN [ok |-> TRUE, kind |-> "list", valid_partitions |-> <<>>]
    ELSE IF Len(content) = 1 /\ content[1] \notin Punctuation
    THEN [ok |-> TRUE, kind |-> "scalar", valid_partitions |-> <<>>]
    ELSE [ok |-> FALSE, kind |-> "none", valid_partitions |-> <<>>]

\* {Date.fromisoformat(d) for d in entries} : the first entry that is not
\* an ISO date ends the comprehension, with a TypeError when it is not a
\* string and a ValueError when it is
parse_dates(entries) ==
    LET bad == {i \in DOMAIN entries :
                   ~IsStr(entries[i]) \/ ~IsIsoDate(entries[i])}
    IN  IF bad = {}
        THEN [exc |-> "none", val |-> {fromisoformat(entries[i]) : i \in DOMAIN entries}]
        ELSE LET first == CHOOSE i \in bad : \A j \in bad : i <= j
             IN  [exc |-> IF IsStr(entries[first]) THEN "ValueError" ELSE "TypeError",
                  val |-> {}]

\* ByDateDataview._load_validation_cache : [exc, val]; exc "none" when it
\* returned val, else the exception that left it (the except clause takes
\* json.JSONDecodeError, OSError and ValueError).  readable = FALSE is an
\* OSError of open() or read().
load_validation_cache(f, readable) ==
    IF ~f.exists THEN [exc |-> "none", val |-> {}]
    ELSE IF ~readable THEN [exc |-> "none", val |-> {}]
    ELSE LET data == json_load(f.content)
         IN  IF ~data.ok THEN [exc |-> "none", val |-> {}]
             ELSE IF data.kind # "dict" THEN [exc |-> "AttributeError", val |-> {}]
             ELSE LET parsed == parse_dates(data.valid_partitions)
                  IN  IF parsed.exc = "ValueError"
                      THEN [exc |-> "none", val |-> {}]
                      ELSE parsed

\* ByDateDataview._load_validation_cache of a readable file: the set returned
_load_validation_cache(f) == load_validation_cache(f, TRUE).val

\* the text _save_validation_cache writes for the set v
CacheText(v) == json_dump(sorted_strs({isoformat(d) : d \in v}))

\* ByDateDataview._save_validation_cache, as one step: the file afterwards.
\* io_ok = FALSE is an OSError anywhere in the write (caught, logged).
_save_validation_cache(v, f, io_ok) ==
    IF io_ok THEN [exists |-> TRUE, content |-> CacheText(v)] ELSE f

\* update_validations that assigns the new partitions instead of adding them
update_validations_replace(v, f, new_partitions, outdated_partitions, memory, file_flag, io_ok) ==
    IF ~memory /\ ~file_flag THEN [valid |-> v, file |-> f]
    ELSE LET v1 == IF memory
                   THEN Range(new_partitions) \ Range(outdated_partitions)
                   ELSE v
         IN  [valid |-> v1,
              file  |-> IF file_flag THEN _save_validation_cache(v1, f, io_ok) ELSE f]

\* ByDateDataview.update_validations : [valid, file] afterwards
update_validations(v, f, new_partitions, outdated_partitions, memory, file_flag, io_ok) ==
    IF ~memory /\ ~file_flag THEN [valid |-> v, file |-> f]
    ELSE LET v1 == IF memory
                   THEN (v \cup Range(new_partitions)) \ Range(outdated_partitions)
                   ELSE v
         IN  [valid |-> v1,
              file  |-> IF file_flag THEN _save_validation_cache(v1, f, io_ok) ELSE f]

\* ByDateDataview.__post_init__ : the in-memory set of a new instance
post_init(f) ==
    LET cached == _load_validation_cache(f)
    IN  IF cached # {}
        THEN update_validations({}, f, sorted_dates(cached), <<>>, TRUE, FALSE, TRUE).valid
        ELSE {}

\* ByDateDataview.__post_init__ : [status, exc, valid]; status "propagated"
\* when an exception of _load_validation_cache leaves the constructor
construct_view(f, readable) ==
    LET cached == load_validation_cache(f, readable)
    IN  IF cached.exc # "none"
        THEN [status |-> "propagated", exc |-> cached.exc, valid |-> {}]
        ELSE [status |-> "returned", exc |-> "none",
              valid |-> IF cached.val # {}
                        THEN update_validations({}, f, sorted_dates(cached.val), <<>>,
                                                TRUE, FALSE, TRUE).valid
                        ELSE {}]

(***************************************************************************)
(* The validity predicate.  The state of the partition directory of a date *)
(* is "valid" (its parquet files read), "invalid" (missing or unreadable)  *)
(* or "error" (the predicate of the subclass raises on it).                *)
(***************************************************************************)
DiskStates == {"valid", "invalid", "error"}

\* a Python call result: a value, or an exception
Value(b) == [exc |-> FALSE, val |-> b]

Raised == [exc |-> TRUE, val |-> FALSE]

\* ByDateDataview._valid_partition (overridable)
_valid_partition(dk, date) ==
    IF dk[date] = "valid" THEN Value(TRUE)
    ELSE IF dk[date] = "invalid" THEN Value(FALSE)
    ELSE Raised

\* _validate_partition_worker : try / except Exception -> False
_validate_partition_worker(dk, date) ==
    LET r == _valid_partition(dk, date)
    IN  IF r.exc THEN Value(FALSE) ELSE r

\* the on-disk partition at d passes the validity predicate
Passes(dk, d) ==
    LET r == _valid_partition(dk, d) IN ~r.exc /\ r.val

(***************************************************************************)
(* atlas.multiprocessing : chunk_list and the result of a ParallelMap call *)
(***************************************************************************)
Min(a, b) == IF a < b THEN a ELSE b

\* range(0, len(lst), chunk_size) : the number of chunks
NumChunks(n, chunk_size) == (n + chunk_size - 1) \div chunk_size

\* chunk_list(lst, chunk_size, assert_div=False)
chunk_list(lst, chunk_size) ==
    [k \in 1 .. NumChunks(Len(lst), chunk_size) |->
        SubSeq(lst, (k - 1) * chunk_size + 1, Min(k * chunk_size, Len(lst)))]

\* Python values the tasks and hooks return: a bool, a list of bools, an int, None
PyBool(b) == [kind |-> "bool", b |-> b, items |-> <<>>, n |-> 0]

PyList(items) == [kind |-> "list", b |-> FALSE, items |-> items, n |-> 0]

PyInt(n) == [kind |-> "int", b |-> FALSE, items |-> <<>>, n |-> n]

PyNone == [kind |-> "none", b |-> FALSE, items |-> <<>>, n |-> 0]

\* ParallelMap.__call__ that never calls the hook
ParallelMap_nohook(outs, args, has_on_error, hooked) ==
    [raised  |-> \E i \in DOMAIN args : outs[i].exc,
     results |-> [i \in DOMAIN args |->
                    IF ~outs[i].exc THEN outs[i].val ELSE PyNone]]

\* ParallelMap.__call__, start to end: outs[i] is what the future of args[i]
\* holds (a value or an exception); has_on_error: a hook is given, and
\* hooked[i] is on_error(exception, args[i], i).
\* [raised, results]: raised when a future raised and there is no hook.
ParallelMap(outs, args, has_on_error, hooked) ==
    [raised  |-> ~has_on_error /\ \E i \in DOMAIN args : outs[i].exc,
     results |-> [i \in DOMAIN args |->
                    IF ~outs[i].exc THEN outs[i].val
                    ELSE IF has_on_error THEN hooked[i]
                    ELSE PyNone]]

(***************************************************************************)
(* ByDateDataview: validation                                              *)
(***************************************************************************)
\* on_validation_error(exception, date, _index) -> False
on_validation_error(exception, date, index) == PyBool(FALSE)

\* ByDateDataview._check_partitions_batch : [raised, results]
\* results: dict date -> validity; raised: an exception leaves the call
_check_partitions_batch(dk, dates) ==
    IF dates = <<>> THEN [raised |-> FALSE, results |-> [d \in {} |-> FALSE]]
    ELSE LET outs == [i \in DOMAIN dates |->
                         LET r == _validate_partition_worker(dk, dates[i])
                         IN  [exc |-> r.exc, val |-> PyBool(r.val)]]
             hooked == [i \in DOMAIN dates |->
                           on_validation_error(outs[i], dates[i], i - 1)]
             call == ParallelMap(outs, dates, TRUE, hooked)
         IN  [raised  |-> call.raised,
              results |-> [d \in Range(dates) |->
                 LET i == CHOOSE j \in DOMAIN dates :
                              dates[j] = d /\ \A k \in DOMAIN dates : dates[k] = d => k <= j
                 IN  call.results[i].b]]

\* the comprehension below with its test dropped: nothing is left to do
NotValidated_none(v) == <<>>

\* [d for d in self.partitions if d not in self._valid_partitions]
NotValidated(v) == SelectSeq(partitions, LAMBDA d : d \notin v)

\* the dates of a dict with a given value, in the order of a list of its keys
KeysWith(order, dict, b) == SelectSeq(order, LAMBDA d : dict[d] = b)

\* valid_partition without its try / except around the predicate
valid_partition_nocatch(v, f, dk, date, recompute, io_ok) ==
    IF ~recompute /\ date \in v
    THEN [valid |-> v, file |-> f, status |-> "returned", ret |-> TRUE, ran |-> {}]
    ELSE LET r == _valid_partition(dk, date)
             u == update_validations(v, f,
                      IF r.val THEN <<date>> ELSE <<>>,
                      IF r.val THEN <<>> ELSE <<date>>,
                      TRUE, TRUE, io_ok)
         IN  IF r.exc
             THEN [valid |-> v, file |-> f, status |-> "propagated",
                   ret |-> FALSE, ran |-> {date}]
             ELSE [valid |-> u.valid, file |-> u.file, status |-> "returned",
                   ret |-> r.val, ran |-> {date}]

\* ByDateDataview.valid_partition : [valid, file, status, ret, ran]
\* ran: the dates the validity predicate was run on;
\* status "propagated": an exception leaves the call
valid_partition(v, f, dk, date, recompute, io_ok) ==
    IF ~recompute /\ date \in v
    THEN [valid |-> v, file |-> f, status |-> "returned", ret |-> TRUE, ran |-> {}]
    ELSE LET r == _valid_partition(dk, date)
             is_valid == IF r.exc THEN FALSE ELSE r.val
             u == update_validations(v, f,
                      IF is_valid THEN <<date>> ELSE <<>>,
                      IF is_valid THEN <<>> ELSE <<date>>,
                      TRUE, TRUE, io_ok)
         IN  [valid |-> u.valid, file |-> u.file, status |-> "returned",
              ret |-> is_valid, ran |-> {date}]

\* ByDateDataview.invalid_partitions : [valid, file, status, ret, ran]
\* status "propagated": an exception of a worker leaves the call
invalid_partitions(v, f, dk, recompute, io_ok) ==
    LET to_validate == IF recompute THEN partitions ELSE NotValidated(v)
    IN  IF ~recompute /\ to_validate = <<>>
        THEN [valid |-> v, file |-> f, status |-> "returned", ret |-> {}, ran |-> {}]
        ELSE LET batch == _check_partitions_batch(dk, to_validate)
                 validation_results == batch.results
                 valid_dates   == KeysWith(to_validate, validation_results, TRUE)
                 invalid_dates == KeysWith(to_validate, validation_results, FALSE)
                 u == update_validations(v, f, valid_dates, invalid_dates,
                                         TRUE, TRUE, io_ok)
             IN  IF batch.raised
                 THEN [valid |-> v, file |-> f, status |-> "propagated",
                       ret |-> {}, ran |-> Range(to_validate)]
                 ELSE [valid |-> u.valid, file |-> u.file, status |-> "returned",
                       ret   |-> IF ~recompute
                                 THEN {d \in PartitionSet : d \notin u.valid}
                                 ELSE Range(invalid_dates),
                       ran   |-> Range(to_validate)]

\* ByDateDataview.validate : [valid, file, status, dates, ran]
\* status "raised" is the RuntimeError, dates the sorted list in its message
validate(v, f, dk, recompute, io_ok) ==
    LET r == invalid_partitions(v, f, dk, recompute, io_ok)
    IN  [valid  |-> r.valid, file |-> r.file,
         status |-> IF r.status = "propagated" THEN "propagated"
                    ELSE IF r.ret # {} THEN "raised" ELSE "returned",
         dates  |-> IF r.ret # {} THEN sorted_dates(r.ret) ELSE <<>>,
         ran    |-> r.ran]

\* ByDateDataview.clear_validation_cache : [valid, file]
\* io_ok = FALSE is an OSError of unlink (caught, logged)
clear_validation_cache(v, f, memory, file_flag, io_ok) ==
    [valid |-> IF memory THEN {} ELSE v,
     file  |-> IF file_flag /\ f.exists /\ io_ok THEN NoFile ELSE f]

(***************************************************************************)
(* ByDateDataset: computation                                              *)
(***************************************************************************)
\* what happens to the task of one chunk:
\*   "ok"    _compute_partitions and the sink succeed
\*   "fail"  the worker catches an exception: the sink raised after it
\*           wrote part of the chunk
\*   "lost"  the future itself raises (the worker process died, or the
\*           task could not be pickled): nothing is written
Outcomes == {"ok", "fail", "lost"}

\* _compute_partitions_worker : True, or False on any exception
_compute_partitions_worker(outcome) == Value(PyBool(outcome = "ok"))

\* the future executor.submit(compute_fn, chunk) of one chunk
ComputeFuture(outcome) ==
    IF outcome = "lost" THEN [exc |-> TRUE, val |-> PyNone]
    ELSE _compute_partitions_worker(outcome)

\* on_compute_error(exception, dates_batch, _index) -> [False] * len(dates_batch)
on_compute_error(exception, dates_batch, index) ==
    PyList([i \in DOMAIN dates_batch |-> FALSE])

\* the dates of the rows of the frame _compute_partitions(chunk) returns, an
\* abstract method:
\*   "requested"  the dates of the chunk
\*   "short"      the dates of the chunk but the last (MetadataEngine keeps
\*                grid_time < max(dates))
\*   "wide"       the dates of the chunk and the other dates of the universe
\*                (MetadataEngine keeps rows of earlier dates whose bucket
\*                ends in the range)
FrameKinds == {"requested", "short", "wide"}

FrameDatesOf(chunk, kind) ==
    IF kind = "requested" THEN Range(chunk)
    ELSE IF kind = "short" THEN Range(chunk) \ {chunk[Len(chunk)]}
    ELSE Range(chunk) \cup PartitionSet

\* the partition directories the task of one chunk writes to:
\* PartitionByKey makes one directory per date of the frame
Written(chunk, outcome, kind) ==
    IF outcome = "ok" THEN FrameDatesOf(chunk, kind)
    ELSE IF outcome = "fail" THEN Range(chunk)
    ELSE {}

\* lf.sink_parquet(PartitionByKey(path, by=['date'])) of one chunk: the
\* partition directories afterwards
SinkChunk(dk, chunk, outcome, kind) ==
    IF outcome = "ok"
    THEN [d \in DOMAIN dk |-> IF d \in FrameDatesOf(chunk, kind) THEN "valid" ELSE dk[d]]
    ELSE IF outcome = "fail"
    THEN [d \in DOMAIN dk |->
             IF d = chunk[1] THEN "valid"
             ELSE IF d \in Range(chunk) THEN "invalid"
             ELSE dk[d]]
    ELSE dk

\* the directories after the tasks of chunks 1 .. k ran
RECURSIVE SinkAll(_, _, _, _, _)
SinkAll(dk, date_chunks, outcome, frames, k) ==
    IF k = 0 THEN dk
    ELSE SinkChunk(SinkAll(dk, date_chunks, outcome, frames, k - 1),
                   date_chunks[k], outcome[k], frames[k])

\* _compute_partitions_batch that gives up on every chunk when one chunk fails
_compute_partitions_batch_abort(dates, days_per_batch, outcome) ==
    IF dates = <<>>
    THEN [raised |-> FALSE, results |-> [d \in {} |-> FALSE], date_chunks |-> <<>>]
    ELSE LET date_chunks == chunk_list(sorted_dates(Range(dates)), days_per_batch)
         IN  [raised  |-> FALSE,
              results |-> [d \in Range(dates) |->
                              \A k \in DOMAIN date_chunks : outcome[k] = "ok"],
              date_chunks |-> date_chunks]

\* ByDateDataset._compute_partitions_batch : [raised, results, date_chunks]
\* results: dict date -> success; outcome[k]: what happens to chunk k;
\* raised: an exception leaves the call
_compute_partitions_batch(dates, days_per_batch, outcome) ==
    IF dates = <<>>
    THEN [raised |-> FALSE, results |-> [d \in {} |-> FALSE], date_chunks |-> <<>>]
    ELSE LET date_chunks == chunk_list(sorted_dates(Range(dates)), days_per_batch)
             outs   == [k \in DOMAIN date_chunks |-> ComputeFuture(outcome[k])]
             hooked == [k \in DOMAIN date_chunks |->
                           on_compute_error(outs[k], date_chunks[k], k - 1)]
             call   == ParallelMap(outs, date_chunks, TRUE, hooked)
             batch_results == call.results
         IN  [raised  |-> call.raised,
              results |->
                 [d \in Range(dates) |->
                     LET k == CHOOSE j \in DOMAIN date_chunks : d \in Range(date_chunks[j])
                         i == CHOOSE j \in DOMAIN date_chunks[k] : date_chunks[k][j] = d
                         batch_success == batch_results[k]
                     IN  IF batch_success.kind = "list"
                         THEN batch_success.items[i]
                         ELSE batch_success.b],
              date_chunks |-> date_chunks]

\* compute that ignores the cache: every partition is handed to the workers
ToCompute_all(v, recompute) == partitions

\* the partitions compute hands to the workers
ToCompute(v, recompute) == IF recompute THEN partitions ELSE NotValidated(v)

\* ByDateDataset.compute : [valid, file, disk, status, dates, submitted, wrote]
\* status "raised" is the RuntimeError, dates the sorted list in its message;
\* status "propagated": an exception of a worker leaves the call;
\* submitted: the chunks handed to the pool, in order; wrote: the
\* directories the task of each chunk wrote to
compute(v, f, dk, recompute, days_per_batch, outcome, frames, io_ok) ==
    LET to_compute == ToCompute(v, recompute)
    IN  IF ~recompute /\ to_compute = <<>>
        THEN [valid |-> v, file |-> f, disk |-> dk, status |-> "returned",
              dates |-> <<>>, submitted |-> <<>>, wrote |-> <<>>]
        ELSE LET batch == _compute_partitions_batch(to_compute, days_per_batch, outcome)
                 after == SinkAll(dk, batch.date_chunks, outcome, frames,
                                  Len(batch.date_chunks))
                 wrote == [k \in DOMAIN batch.date_chunks |->
                              Written(batch.date_chunks[k], outcome[k], frames[k])]
                 successful == KeysWith(to_compute, batch.results, TRUE)
                 failed     == KeysWith(to_compute, batch.results, FALSE)
                 u == update_validations(v, f, successful, failed, TRUE, TRUE, io_ok)
             IN  IF batch.raised
                 THEN [valid |-> v, file |-> f, disk |-> after, status |-> "propagated",
                       dates |-> <<>>, submitted |-> batch.date_chunks, wrote |-> wrote]
                 ELSE [valid |-> u.valid, file |-> u.file, disk |-> after,
                       status |-> IF failed # <<>> THEN "raised" ELSE "returned",
                       dates  |-> IF failed # <<>> THEN sorted_dates(Range(failed)) ELSE <<>>,
                       submitted |-> batch.date_chunks, wrote |-> wrote]

(***************************************************************************)
(* State                                                                   *)
(***************************************************************************)
VARIABLES
    \* the dataset (Spec)
    valid,      \* self._valid_partitions of the live instance
    file,       \* {path}/validated_partitions.json
    disk,       \* the partition directory of each date
    last,       \* the last call: its arguments, its inputs and how it ended
    \* one ParallelMap call (SpecPM)
    pmPc,       \* where __call__ is
    pmArgs,     \* args
    pmHook,     \* on_error is not None
    pmFail,     \* the indices whose task raises
    pmTask,     \* the state of the future of each index
    pmYielded,  \* the indices as_completed has yielded, in order
    pmResults,  \* results
    \* one _save_validation_cache (SpecSave)
    svPc,       \* where the save is
    svValid,    \* self._valid_partitions
    svFs,       \* the files under the root, by path
    svOld,      \* validated_partitions.json when the save began
    svPos,      \* how many tokens of the text are in the temp file
    \* one call of chunk_apply or of the batching of compute (SpecChunk)
    caCall,     \* the call: the operation and its arguments
    caOut,      \* how it ended: raised or returned, and what
    \* one MetadataEngine._compute_partitions (SpecMeta)
    mdCall,     \* the backend ticks and the batch of dates
    mdOut,      \* the rows of the frame it returns
    \* one call that hands a lazy frame onward (SpecFrames)
    ppCall,     \* the call, the frames on disk and the validation results
    ppOut,      \* how it ended and the frame it handed onward
    \* one reconstruction of a dataset in a worker (SpecRebuild)
    kwCall,     \* the class and the orchestrating instance
    kwOut,      \* the instance the worker builds
    \* the queries on one ReturnsEngine (SpecQuery)
    rqDb,       \* self.db: the ticks of the backend
    rqCall,     \* the query: its rows and its arguments
    rqOut,      \* the rows of the frame it returns
    \* one grid_query (SpecGrid)
    gqCall,     \* the frame of trades and the grid interval
    gqOut,      \* the rows of the grid it returns
    \* the calls of create_ctdp_cache on one cache_dir (SpecCache)
    ccDir,      \* cache_dir: absent, or the files in it
    ccCall,     \* the call and what fails during it
    ccOut       \* how it ended

dsVars == <<valid, file, disk, last>>

pmVars == <<pmPc, pmArgs, pmHook, pmFail, pmTask, pmYielded, pmResults>>

svVars == <<svPc, svValid, svFs, svOld, svPos>>

caVars == <<caCall, caOut>>

\* the variables of the specifications of the pure functions
mdVars == <<mdCall, mdOut>>

ppVars == <<ppCall, ppOut>>

kwVars == <<kwCall, kwOut>>

rqVars == <<rqDb, rqCall, rqOut>>

gqVars == <<gqCall, gqOut>>

ccVars == <<ccDir, ccCall, ccOut>>

xtVars == <<caVars, mdVars, ppVars, kwVars, rqVars, gqVars, ccVars>>

\* what the actions of one of these specifications leave alone
caOthers == <<dsVars, pmVars, svVars, mdVars, ppVars, kwVars, rqVars, gqVars, ccVars>>

mdOthers == <<dsVars, pmVars, svVars, caVars, ppVars, kwVars, rqVars, gqVars, ccVars>>

ppOthers == <<dsVars, pmVars, svVars, caVars, mdVars, kwVars, rqVars, gqVars, ccVars>>

kwOthers == <<dsVars, pmVars, svVars, caVars, mdVars, ppVars, rqVars, gqVars, ccVars>>

rqOthers == <<dsVars, pmVars, svVars, caVars, mdVars, ppVars, kwVars, gqVars, ccVars>>

gqOthers == <<dsVars, pmVars, svVars, caVars, mdVars, ppVars, kwVars, rqVars, ccVars>>

ccOthers == <<dsVars, pmVars, svVars, caVars, mdVars, ppVars, kwVars, rqVars, gqVars>>

vars == <<dsVars, pmVars, svVars, xtVars>>

\* the variables of the executor and of the save when they are not in use
PmIdle ==
    /\ pmPc = "idle" /\ pmArgs = <<>> /\ pmHook = FALSE /\ pmFail = {}
    /\ pmTask = <<>> /\ pmYielded = <<>> /\ pmResults = <<>>

SvIdle ==
    /\ svPc = "idle" /\ svValid = {} /\ svFs = <<>> /\ svOld = NoFile /\ svPos = 0

\* no call of SpecChunk yet; None is <<>>, an int n is <<n>>
NoChunkCall == [op |-> "none", args |-> <<>>, batch_size |-> <<>>, num_chunks |-> <<>>,
                valid |-> {}, recompute |-> FALSE, days_per_batch |-> 1]

NoChunkOut == [raised |-> "", value |-> <<>>, to_compute |-> <<>>, date_chunks |-> <<>>]

CaIdle == caCall = NoChunkCall /\ caOut = NoChunkOut

MdIdle == mdCall = [op |-> "none", ticks |-> {}, dates |-> <<>>] /\ mdOut = {}

\* a lazy frame: the dtype of its symbol column ("absent" without one),
\* and whether _postprocess_lf has been applied to it
NoFrame == [symbol |-> "absent", postprocessed |-> FALSE]

NoFrameCall == [op |-> "none", stored |-> "absent", computed |-> "absent",
                dates |-> <<>>, invalid |-> {}, readable |-> TRUE]

PpIdle == ppCall = NoFrameCall /\ ppOut = [raised |-> FALSE, frame |-> NoFrame]

KwIdle == kwCall = [op |-> "none", class |-> "none", inst |-> <<>>] /\ kwOut = <<>>

NoQuery == [op |-> "none", rows |-> <<>>, mark_exprs |-> <<>>, mark_duration |-> 0,
            tick_lag_tolerance |-> 0, filter_by_query_dates |-> TRUE]

RqIdle == rqDb = {} /\ rqCall = NoQuery /\ rqOut = <<>>

NoGridCall == [op |-> "none", lf |-> <<>>, grid_interval |-> 1]

GqIdle == gqCall = NoGridCall /\ gqOut = {}

NoCacheCall == [op |-> "none", duplicates |-> FALSE, fails |-> "nothing"]

\* nothing at cache_dir; kind is "absent", "dir" or "file"
NoDir == [kind |-> "absent", files |-> {}]

CcIdle == ccDir = NoDir /\ ccCall = NoCacheCall /\ ccOut = "none"

XtIdle == CaIdle /\ MdIdle /\ PpIdle /\ KwIdle /\ RqIdle /\ GqIdle /\ CcIdle

(***************************************************************************)
(* Spec: the sessions of one dataset root                                  *)
(***************************************************************************)
\* the record of a call; a call fills in the fields it has
Call == [op |-> "construct", status |-> "returned", recompute |-> FALSE,
         date |-> <<>>, submitted |-> <<>>, outcome |-> <<>>, wrote |-> <<>>,
         ran |-> {}, dates |-> <<>>, retb |-> FALSE, rets |-> {},
         pre |-> {}, before_clear |-> <<>>, io_ok |-> TRUE,
         memory |-> FALSE, file_flag |-> FALSE]

\* the set a directly preceding clear_validation_cache(memory=True, file=True)
\* emptied, as a one-element list; the empty list after any other call
BeforeClear(c) ==
    IF c.op = "clear_validation_cache" /\ c.memory /\ c.file_flag
    THEN <<c.pre>> ELSE <<>>

\* the cache files a session can find: none, or one an earlier session saved
\* (the universe of that session may have held other dates)
InitFiles == {NoFile} \cup
             {_save_validation_cache(S, NoFile, TRUE) : S \in SUBSET AllDates}

Init ==
    /\ file \in InitFiles
    /\ disk \in [AllDates -> DiskStates]
    /\ disk[ForeignDate] # "error"
    /\ valid = post_init(file)
    /\ last = Call
    /\ PmIdle /\ SvIdle /\ XtIdle

\* a new session: the instance is constructed again on the same root
Construct ==
    /\ valid' = post_init(file)
    /\ last' = Call
    /\ UNCHANGED <<file, disk, pmVars, svVars, xtVars>>

ValidPartition(date, recompute, io_ok) ==
    \E r \in {valid_partition(valid, file, disk, date, recompute, io_ok)} :
        /\ (r.ran = {}) => io_ok
        /\ valid' = r.valid
        /\ file' = r.file
        /\ last' = [Call EXCEPT !.op = "valid_partition", !.pre = valid, !.date = date,
                                !.status = r.status,
                                !.recompute = recompute, !.ran = r.ran,
                                !.retb = r.ret, !.io_ok = io_ok]
        /\ UNCHANGED <<disk, pmVars, svVars, xtVars>>

InvalidPartitions(recompute, io_ok) ==
    \E r \in {invalid_partitions(valid, file, disk, recompute, io_ok)} :
        /\ (r.ran = {}) => io_ok
        /\ valid' = r.valid
        /\ file' = r.file
        /\ last' = [Call EXCEPT !.op = "invalid_partitions", !.pre = valid,
                                !.status = r.status,
                                !.recompute = recompute, !.ran = r.ran,
                                !.rets = r.ret, !.io_ok = io_ok]
        /\ UNCHANGED <<disk, pmVars, svVars, xtVars>>

Validate(recompute, io_ok) ==
    \E r \in {validate(valid, file, disk, recompute, io_ok)} :
        /\ (r.ran = {}) => io_ok
        /\ valid' = r.valid
        /\ file' = r.file
        /\ last' = [Call EXCEPT !.op = "validate", !.pre = valid, !.status = r.status,
                                !.recompute = recompute, !.ran = r.ran,
                                !.dates = r.dates, !.io_ok = io_ok,
                                !.before_clear = BeforeClear(last)]
        /\ UNCHANGED <<disk, pmVars, svVars, xtVars>>

\* compute() on a subclass whose _compute_partitions returns frames of the
\* given kinds
ComputeFrames(recompute, days_per_batch, io_ok, kinds) ==
    \E outcome \in [1 .. NumChunks(Len(ToCompute(valid, recompute)), days_per_batch)
                        -> Outcomes],
       frames \in [1 .. NumChunks(Len(ToCompute(valid, recompute)), days_per_batch)
                        -> kinds] :
        \E r \in {compute(valid, file, disk, recompute, days_per_batch, outcome,
                           frames, io_ok)} :
            /\ \A k \in DOMAIN outcome : outcome[k] # "ok" => frames[k] = "requested"
            /\ (r.submitted = <<>>) => io_ok
            /\ valid' = r.valid
            /\ file' = r.file
            /\ disk' = r.disk
            /\ last' = [Call EXCEPT !.op = "compute", !.pre = valid, !.status = r.status,
                                    !.recompute = recompute,
                                    !.submitted = r.submitted, !.outcome = outcome,
                                    !.wrote = r.wrote,
                                    !.dates = r.dates, !.io_ok = io_ok]
            /\ UNCHANGED <<pmVars, svVars, xtVars>>

\* compute() on a subclass whose frame holds the dates of the chunk, each of
\* them (SpecSink has the other subclasses)
Compute(recompute, days_per_batch, io_ok) ==
    ComputeFrames(recompute, days_per_batch, io_ok, {"requested"})

ClearValidationCache(memory, file_flag, io_ok) ==
    \E r \in {clear_validation_cache(valid, file, memory, file_flag, io_ok)} :
        /\ ~(file_flag /\ file.exists) => io_ok
        /\ valid' = r.valid
        /\ file' = r.file
        /\ last' = [Call EXCEPT !.op = "clear_validation_cache", !.pre = valid,
                                !.memory = memory, !.file_flag = file_flag,
                                !.io_ok = io_ok]
        /\ UNCHANGED <<disk, pmVars, svVars, xtVars>>

Next ==
    \/ Construct
    \/ \E date \in AllDates, recompute \in BOOLEAN, io_ok \in BOOLEAN :
           ValidPartition(date, recompute, io_ok)
    \/ \E recompute \in BOOLEAN, io_ok \in BOOLEAN :
           InvalidPartitions(recompute, io_ok)
    \/ \E recompute \in BOOLEAN, io_ok \in BOOLEAN :
           Validate(recompute, io_ok)
    \/ \E recompute \in BOOLEAN, days_per_batch \in 1 .. MaxBatch, io_ok \in BOOLEAN :
           Compute(recompute, days_per_batch, io_ok)
    \/ \E memory \in BOOLEAN, file_flag \in BOOLEAN, io_ok \in BOOLEAN :
           ClearValidationCache(memory, file_flag, io_ok)

Spec == Init /\ [][Next]_vars

\* SpecSink: construction and compute() on any subclass: the frame of a task
\* may lack dates of its chunk and may hold dates outside of it
ComputeAny(recompute, days_per_batch, io_ok) ==
    ComputeFrames(recompute, days_per_batch, io_ok, FrameKinds)

NextSink ==
    \/ Construct
    \/ \E recompute \in BOOLEAN, days_per_batch \in 1 .. MaxBatch, io_ok \in BOOLEAN :
           ComputeAny(recompute, days_per_batch, io_ok)

SpecSink == Init /\ [][NextSink]_vars

\* SpecWritesOk: the operations of Spec in a session where no write or
\* removal of the cache file ever fails
NextWritesOk ==
    \/ Construct
    \/ \E date \in AllDates, recompute \in BOOLEAN :
           ValidPartition(date, recompute, TRUE)
    \/ \E recompute \in BOOLEAN : InvalidPartitions(recompute, TRUE)
    \/ \E recompute \in BOOLEAN : Validate(recompute, TRUE)
    \/ \E recompute \in BOOLEAN, days_per_batch \in 1 .. MaxBatch :
           Compute(recompute, days_per_batch, TRUE)
    \/ \E memory \in BOOLEAN, file_flag \in BOOLEAN :
           ClearValidationCache(memory, file_flag, TRUE)

SpecWritesOk == Init /\ [][NextWritesOk]_vars

\* SpecLoad: the construction of a view on a root whose
\* validated_partitions.json holds any text of at most MaxTokens tokens
Garbage == <<103, 97, 114, 98, 97, 103, 101>>

Tokens == Punctuation \cup {NumberToken, NullToken, Garbage}
              \cup {isoformat(d) : d \in AllDates}

Texts == UNION {[1 .. n -> Tokens] : n \in 0 .. MaxTokens}

LoadFiles == {NoFile} \cup {[exists |-> TRUE, content |-> t] : t \in Texts}

InitLoad ==
    /\ file \in LoadFiles
    /\ disk = [d \in AllDates |-> "valid"]
    /\ valid = {}
    /\ last = [Call EXCEPT !.op = "none"]
    /\ PmIdle /\ SvIdle /\ XtIdle

ConstructView(readable) ==
    /\ last.op = "none"
    /\ \E r \in {construct_view(file, readable)} :
           /\ valid' = r.valid
           /\ last' = [Call EXCEPT !.status = r.status, !.io_ok = readable]
    /\ UNCHANGED <<file, disk, pmVars, svVars, xtVars>>

NextLoad == \E readable \in BOOLEAN : ConstructView(readable)

SpecLoad == InitLoad /\ [][NextLoad]_vars

(***************************************************************************)
(* Properties of Spec                                                      *)
(***************************************************************************)
\* the dates of the chunks of a compute call whose task ended "ok"
OkDates(c) ==
    UNION {Range(c.submitted[k]) : k \in {j \in DOMAIN c.submitted : c.outcome[j] = "ok"}}

\* the dates of the chunks of a compute call whose task failed
FailedDates(c) ==
    UNION {Range(c.submitted[k]) : k \in {j \in DOMAIN c.submitted : c.outcome[j] # "ok"}}

RECURSIVE Flatten(_)
Flatten(chunks) ==
    IF chunks = <<>> THEN <<>> ELSE Head(chunks) \o Flatten(Tail(chunks))

\* the partitions of the universe whose directory passes the predicate
PassingPartitions == {d \in PartitionSet : Passes(disk, d)}

\* C1 (as stated): after a compute call that processed chunks,
\* valid_partitions is the set before the call, plus the dates of the chunks
\* that succeeded, minus the dates of the chunks that failed, and the cache
\* file holds that set.
C1_AsStated ==
    (last.op = "compute" /\ last.submitted # <<>>) =>
        /\ valid = (last.pre \cup OkDates(last)) \ FailedDates(last)
        /\ _load_validation_cache(file) = valid

\* C1 (amended): after a compute call that processed chunks,
\* valid_partitions is the set before the call, plus the dates of the chunks
\* that succeeded, minus the dates of the chunks that failed, whatever the
\* other chunks did; the cache file holds that set unless writing it failed
\* with an OSError, in which case the file is the one from before the call.
C1_ComputeMarksPerChunk ==
    (last.op = "compute" /\ last.submitted # <<>>) =>
        /\ valid = (last.pre \cup OkDates(last)) \ FailedDates(last)
        /\ last.io_ok => /\ _load_validation_cache(file) = valid
                         /\ file = [exists |-> TRUE, content |-> CacheText(valid)]

\* a compute call in which one chunk succeeded, another failed, and the
\* dates of the first are marked and saved
C1_Witness ==
    /\ last.op = "compute" /\ last.status = "raised" /\ last.io_ok
    /\ OkDates(last) # {} /\ FailedDates(last) # {}
    /\ OkDates(last) \ last.pre # {}
    /\ OkDates(last) \subseteq valid
    /\ _load_validation_cache(file) = valid

C3_ValidIffPasses ==
    (last.op = "validate" /\ last.recompute) =>
        /\ \A d \in valid : Passes(disk, d)
        /\ \A d \in PartitionSet : Passes(disk, d) => d \in valid

\* C4: compute(recompute=false) hands to the workers exactly the partitions
\* that are not in valid_partitions, each in one chunk and once; when there
\* is none it changes neither valid_partitions nor a file; right after a
\* compute that returned there is none.
C4_ComputeOnlyMissing ==
    [][(last'.op = "compute" /\ ~last'.recompute) =>
          /\ Flatten(last'.submitted) = NotValidated(valid)
          /\ last'.submitted = <<>> => UNCHANGED <<valid, file, disk>>
          /\ (last.op = "compute" /\ last.status = "returned") =>
                 last'.submitted = <<>>
      ]_vars

\* a compute(recompute=false) after a failure: it skipped the partitions
\* that were valid and submitted the others
C4_Witness ==
    /\ last.op = "compute" /\ ~last.recompute
    /\ last.submitted # <<>>
    /\ last.pre \cap PartitionSet # {}
    /\ Range(Flatten(last.submitted)) = PartitionSet \ last.pre

C6_AsStated ==
    last.op = "valid_partition" =>
        /\ last.status = "returned"
        /\ (~last.recompute /\ last.date \in last.pre) =>
               /\ last.retb /\ last.ran = {} /\ valid = last.pre
        /\ ~(~last.recompute /\ last.date \in last.pre) =>
               /\ last.ran = {last.date}
               /\ last.retb = Passes(disk, last.date)
               /\ last.date \in valid <=> last.retb
               /\ valid \ {last.date} = last.pre \ {last.date}
               /\ _load_validation_cache(file) = valid

\* C6 (amended): as C6, with the cache file holding the new set unless
\* writing it failed with an OSError.
C6_ValidPartition ==
    last.op = "valid_partition" =>
        /\ last.status = "returned"
        /\ (~last.recompute /\ last.date \in last.pre) =>
               /\ last.retb /\ last.ran = {} /\ valid = last.pre
        /\ ~(~last.recompute /\ last.date \in last.pre) =>
               /\ last.ran = {last.date}
               /\ last.retb = Passes(disk, last.date)
               /\ last.date \in valid <=> last.retb
               /\ valid \ {last.date} = last.pre \ {last.date}
               /\ last.io_ok =>
                      file = [exists |-> TRUE, content |-> CacheText(valid)]

\* a forced check of a cached date on which the predicate raises: the
\* answer is false and the date is gone from the set and from the file
C6_Witness ==
    /\ last.op = "valid_partition" /\ last.recompute
    /\ last.date \in last.pre
    /\ disk[last.date] = "error"
    /\ ~last.retb /\ last.date \notin valid
    /\ last.io_ok /\ last.date \notin _load_validation_cache(file)

C26_MarkedOnlyIfWritten ==
    last.op = "compute" =>
        \A d \in valid \ last.pre : Passes(disk, d)

\* ByDateDataset.num_partitions and num_validated
num_partitions == Cardinality(PartitionSet)

num_validated(v) == Cardinality(v)

\* C27: in every reachable state valid_partitions is a subset of the
\* partitions of the universe, and num_validated() is at most
\* num_partitions(); also right after construction from a cache file that
\* was written under another universe.
C27_ValidWithinPartitions ==
    /\ valid \subseteq PartitionSet
    /\ num_validated(valid) <= num_partitions

\* C28: in a session where no write of the cache file fails, when
\* valid_partition, invalid_partitions, validate or compute has returned or
\* raised, the dates in validated_partitions.json are the in-memory
\* valid_partitions, whatever operations came before.
C28_CacheCoherent ==
    last.op \in {"valid_partition", "invalid_partitions", "validate", "compute"}
        => _load_validation_cache(file) = valid

\* the cache files C30 speaks of: missing, unreadable, not valid JSON, or
\* valid JSON that is not an object whose entries are ISO date strings
UnexpectedCacheFile(f, readable) ==
    \/ ~f.exists
    \/ ~readable
    \/ ~json_load(f.content).ok
    \/ json_load(f.content).kind # "dict"
    \/ \E i \in DOMAIN json_load(f.content).valid_partitions :
           \/ ~IsStr(json_load(f.content).valid_partitions[i])
           \/ ~IsIsoDate(json_load(f.content).valid_partitions[i])

\* C30: the construction of a view returns whatever the cache file holds,
\* and when the file is missing, unreadable, not valid JSON or valid JSON of
\* an unexpected shape, valid_partitions is empty afterwards.
C30_ConstructionNeverFails ==
    last.op = "construct" =>
        /\ last.status = "returned"
        /\ UnexpectedCacheFile(file, last.io_ok) => valid = {}

\* the directories the tasks of a compute call wrote to
WrittenBy(c) == UNION {c.wrote[k] : k \in DOMAIN c.wrote}

\* C29: during one compute call no partition directory is written by two
\* tasks, a task writes only the directories of the dates of its chunk, and
\* the directory of a date that was valid and is not recomputed is not
\* written.
C29_WritesOnlyOwnChunk ==
    last.op = "compute" =>
        /\ \A j, k \in DOMAIN last.wrote :
               j # k => last.wrote[j] \cap last.wrote[k] = {}
        /\ \A k \in DOMAIN last.wrote :
               last.wrote[k] \subseteq Range(last.submitted[k])
        /\ \A d \in last.pre \ Range(Flatten(last.submitted)) :
               d \notin WrittenBy(last)

(***************************************************************************)
(* SpecPM: one ParallelMap.__call__ and its pool, step by step             *)
(*                                                                         *)
(* pmPc:  "idle"      before the call                                      *)
(*        "submit"    in the comprehension that submits the tasks          *)
(*        "collect"   in the loop over as_completed(futures)               *)
(*        "exit_ok"   leaving the with block after the loop                *)
(*        "exit_exc"  leaving the with block with the exception of a task  *)
(*        "returned" / "raised"   the call is over                         *)
(* pmTask[i]: "new" (not submitted), "pending" (queued), "running",        *)
(*        "ok" / "exc" (done, with a result / an exception), "cancelled"   *)
(***************************************************************************)
\* the function the call maps, and the hook the caller may give
TestFn(arg) == PyInt(arg * arg)

TestHook(exception, arg, index) == PyInt(0 - 1 - index)

\* the argument list of length n
TestArgs(n) == [i \in 1 .. n |-> (i % 2) + 1]

Done(tasks, i) == tasks[i] \in {"ok", "exc"}

\* what the future of index i holds once it is done
FutureOf(i) == IF i \in pmFail THEN Raised ELSE Value(TestFn(pmArgs[i]))

\* a result stored in arrival order instead of under its index
ResultSlot_arrival(index, yielded) == Len(yielded) + 1

\* index = futures[future]; results[index] = ... : the slot written for the
\* future of `index`, `yielded` being the futures as_completed gave before
ResultSlot(index, yielded) == index

\* leaving the with block without waiting for the tasks
ShutdownDone_nowait(tasks) == TRUE

\* Executor.__exit__ : shutdown(wait=True) returns once every submitted
\* task is done; it cancels none
ShutdownDone(tasks) == \A i \in DOMAIN tasks : Done(tasks, i)

\* results = [None] * len(args)
PMCall(n, has_on_error, fail) ==
    /\ pmPc = "idle"
    /\ pmPc' = "submit"
    /\ pmArgs' = TestArgs(n)
    /\ pmHook' = has_on_error
    /\ pmFail' = fail
    /\ pmTask' = [i \in 1 .. n |-> "new"]
    /\ pmYielded' = <<>>
    /\ pmResults' = [i \in 1 .. n |-> PyNone]
    /\ UNCHANGED <<dsVars, svVars, xtVars>>

\* executor.submit(fn, arg) of the next argument
PMSubmit ==
    /\ pmPc = "submit"
    /\ \E i \in DOMAIN pmTask :
          /\ pmTask[i] = "new"
          /\ \A j \in DOMAIN pmTask : j < i => pmTask[j] # "new"
          /\ pmTask' = [pmTask EXCEPT ![i] = "pending"]
    /\ UNCHANGED <<pmPc, pmArgs, pmHook, pmFail, pmYielded, pmResults, dsVars, svVars, xtVars>>

\* the comprehension is over: the loop over as_completed starts
PMSubmitted ==
    /\ pmPc = "submit"
    /\ \A i \in DOMAIN pmTask : pmTask[i] # "new"
    /\ pmPc' = "collect"
    /\ UNCHANGED <<pmArgs, pmHook, pmFail, pmTask, pmYielded, pmResults, dsVars, svVars, xtVars>>

\* a free worker of the pool takes a queued task
WorkerStart(i) ==
    /\ pmPc \in {"submit", "collect", "exit_ok", "exit_exc"}
    /\ pmTask[i] = "pending"
    /\ Cardinality({j \in DOMAIN pmTask : pmTask[j] = "running"}) < MaxWorkers
    /\ pmTask' = [pmTask EXCEPT ![i] = "running"]
    /\ UNCHANGED <<pmPc, pmArgs, pmHook, pmFail, pmYielded, pmResults, dsVars, svVars, xtVars>>

\* a task ends: fn(arg) returned or raised
WorkerFinish(i) ==
    /\ pmTask[i] = "running"
    /\ pmTask' = [pmTask EXCEPT ![i] = IF FutureOf(i).exc THEN "exc" ELSE "ok"]
    /\ UNCHANGED <<pmPc, pmArgs, pmHook, pmFail, pmYielded, pmResults, dsVars, svVars, xtVars>>

\* one turn of the loop: as_completed yields a done future not yet yielded
PMCollect(i) ==
    /\ pmPc = "collect"
    /\ Done(pmTask, i)
    /\ i \notin Range(pmYielded)
    /\ pmYielded' = Append(pmYielded, i)
    /\ IF ~FutureOf(i).exc
       THEN /\ pmResults' = [pmResults EXCEPT ![ResultSlot(i, pmYielded)] = FutureOf(i).val]
            /\ pmPc' = pmPc
       ELSE IF pmHook
       THEN /\ pmResults' = [pmResults EXCEPT ![ResultSlot(i, pmYielded)] =
                                 TestHook(FutureOf(i), pmArgs[i], i - 1)]
            /\ pmPc' = pmPc
       ELSE /\ pmResults' = pmResults
            /\ pmPc' = "exit_exc"
    /\ UNCHANGED <<pmArgs, pmHook, pmFail, pmTask, dsVars, svVars, xtVars>>

\* as_completed is exhausted: the loop ends
PMLoopEnd ==
    /\ pmPc = "collect"
    /\ Len(pmYielded) = Len(pmArgs)
    /\ pmPc' = "exit_ok"
    /\ UNCHANGED <<pmArgs, pmHook, pmFail, pmTask, pmYielded, pmResults, dsVars, svVars, xtVars>>

\* the with block is left: return results, or the exception goes on
PMExit ==
    /\ pmPc \in {"exit_ok", "exit_exc"}
    /\ ShutdownDone(pmTask)
    /\ pmPc' = IF pmPc = "exit_ok" THEN "returned" ELSE "raised"
    /\ UNCHANGED <<pmArgs, pmHook, pmFail, pmTask, pmYielded, pmResults, dsVars, svVars, xtVars>>

DsIdle ==
    /\ valid = {} /\ file = NoFile /\ last = Call
    /\ disk = [d \in AllDates |-> "invalid"]

InitPM == pmPc = "idle" /\ pmArgs = <<>> /\ pmHook = FALSE /\ pmFail = {}
          /\ pmTask = <<>> /\ pmYielded = <<>> /\ pmResults = <<>>
          /\ DsIdle /\ SvIdle /\ XtIdle

NextPM ==
    \/ \E n \in 0 .. MaxTasks, has_on_error \in BOOLEAN :
          \E fail \in SUBSET (1 .. n) : PMCall(n, has_on_error, fail)
    \/ PMSubmit
    \/ PMSubmitted
    \/ \E i \in DOMAIN pmTask : WorkerStart(i)
    \/ \E i \in DOMAIN pmTask : WorkerFinish(i)
    \/ \E i \in DOMAIN pmTask : PMCollect(i)
    \/ PMLoopEnd
    \/ PMExit

SpecPM == InitPM /\ [][NextPM]_vars

\* what the futures hold, and what the hook gives, for the call under way
PMOuts == [i \in DOMAIN pmArgs |-> FutureOf(i)]

PMHooked == [i \in DOMAIN pmArgs |-> TestHook(FutureOf(i), pmArgs[i], i - 1)]

\* C9: a ParallelMap call that returns gives a list as long as args whose
\* i-th element is fn(args[i]) (the replacement of the hook where the task
\* raised), whatever the order in which the tasks ran and completed.
C9_ResultsInInputOrder ==
    pmPc = "returned" =>
        /\ Len(pmResults) = Len(pmArgs)
        /\ \A i \in DOMAIN pmArgs : i \notin pmFail => pmResults[i] = TestFn(pmArgs[i])
        /\ pmResults = ParallelMap(PMOuts, pmArgs, pmHook, PMHooked).results

\* a call that returned although its tasks completed in another order than
\* the input order
C9_Witness ==
    /\ pmPc = "returned"
    /\ Len(pmArgs) >= 3
    /\ pmYielded[1] = Len(pmArgs)
    /\ pmYielded[Len(pmArgs)] = 1
    /\ pmFail = {}

\* C10: without a hook the exception of a task leaves the call only when
\* every submitted task is done (none cancelled, none running); with a hook
\* the call does not raise and the index of a failed task holds the
\* replacement of the hook.
C10_DrainBeforeRaise ==
    /\ pmPc = "raised" =>
          /\ ~pmHook
          /\ \A i \in DOMAIN pmTask : Done(pmTask, i)
          /\ ParallelMap(PMOuts, pmArgs, pmHook, PMHooked).raised
    /\ pmHook =>
          /\ pmPc # "raised" /\ pmPc # "exit_exc"
          /\ pmPc = "returned" =>
                 \A i \in pmFail : pmResults[i] = TestHook(FutureOf(i), pmArgs[i], i - 1)
    /\ pmPc = "returned" => ~ParallelMap(PMOuts, pmArgs, pmHook, PMHooked).raised

\* a call that raised for a task that failed while later tasks were still
\* queued, after they had all run
C10_Witness ==
    /\ pmPc = "raised"
    /\ Len(pmArgs) >= 3
    /\ Len(pmYielded) = 1
    /\ \A i \in DOMAIN pmTask : Done(pmTask, i)

(***************************************************************************)
(* SpecSave: one _save_validation_cache, step by step                      *)
(*                                                                         *)
(* svPc:  "idle"     before the call                                       *)
(*        "open"     data is built, the temp file is about to be opened    *)
(*        "write"    json.dump is writing into the temp file               *)
(*        "replace"  the temp file is closed, about to be renamed          *)
(*        "done" / "failed"   the call returned True / False               *)
(*        "crashed"  the process died during the call                      *)
(*        "loaded"   a new instance has loaded the cache                   *)
(***************************************************************************)
\* a path is <<stem, suffix>>
ValidationFile == <<"validated_partitions", ".json">>

TmpSuffix == ".json.tmp"

\* a with_suffix that gives the path back: the temp file is the cache file
with_suffix_same(path, suffix) == path

\* Path.with_suffix
with_suffix(path, suffix) == <<path[1], suffix>>

\* temp_file = self._validation_file.with_suffix(".json.tmp")
TempFile == with_suffix(ValidationFile, TmpSuffix)

Paths == {ValidationFile, TempFile}

\* the text json.dump writes for svValid, token by token
SaveText == CacheText(svValid)

\* data = {...}; temp_file = ...
SaveBegin ==
    /\ svPc = "idle"
    /\ svPc' = "open"
    /\ svOld' = svFs[ValidationFile]
    /\ svPos' = 0
    /\ UNCHANGED <<svValid, svFs, dsVars, pmVars, xtVars>>

\* open(temp_file, "w"): the temp file exists and is empty; or OSError
SaveOpen(io_ok) ==
    /\ svPc = "open"
    /\ IF io_ok
       THEN /\ svFs' = [svFs EXCEPT ![TempFile] = [exists |-> TRUE, content |-> <<>>]]
            /\ svPc' = "write"
       ELSE /\ svFs' = svFs
            /\ svPc' = "failed"
    /\ UNCHANGED <<svValid, svOld, svPos, dsVars, pmVars, xtVars>>

\* json.dump: the next piece of the text reaches the temp file; or OSError
SaveWrite(io_ok) ==
    /\ svPc = "write"
    /\ svPos < Len(SaveText)
    /\ IF io_ok
       THEN /\ svFs' = [svFs EXCEPT ![TempFile].content = Append(@, SaveText[svPos + 1])]
            /\ svPos' = svPos + 1
            /\ svPc' = svPc
       ELSE /\ svFs' = svFs
            /\ svPos' = svPos
            /\ svPc' = "failed"
    /\ UNCHANGED <<svValid, svOld, dsVars, pmVars, xtVars>>

\* the with block ends: the temp file is closed
SaveClose ==
    /\ svPc = "write"
    /\ svPos = Len(SaveText)
    /\ svPc' = "replace"
    /\ UNCHANGED <<svValid, svFs, svOld, svPos, dsVars, pmVars, xtVars>>

\* temp_file.replace(self._validation_file): an atomic rename; or OSError
SaveReplace(io_ok) ==
    /\ svPc = "replace"
    /\ IF io_ok
       THEN /\ svFs' = [q \in Paths |->
                            IF q = ValidationFile THEN svFs[TempFile] ELSE NoFile]
            /\ svPc' = "done"
       ELSE /\ svFs' = svFs
            /\ svPc' = "failed"
    /\ UNCHANGED <<svValid, svOld, svPos, dsVars, pmVars, xtVars>>

\* the process dies during the call
SaveCrash ==
    /\ svPc \in {"open", "write", "replace"}
    /\ svPc' = "crashed"
    /\ UNCHANGED <<svValid, svFs, svOld, svPos, dsVars, pmVars, xtVars>>

\* a new instance is constructed on the root and loads the cache
SaveLoad ==
    /\ svPc \in {"done", "failed", "crashed"}
    /\ svPc' = "loaded"
    /\ svValid' = post_init(svFs[ValidationFile])
    /\ UNCHANGED <<svFs, svOld, svPos, dsVars, pmVars, xtVars>>

\* validations change the in-memory set; the next save begins
SaveAgain(S) ==
    /\ svPc \in {"done", "failed", "loaded"}
    /\ svPc' = "idle"
    /\ svValid' = S
    /\ UNCHANGED <<svFs, svOld, svPos, dsVars, pmVars, xtVars>>

InitSave ==
    /\ svPc = "idle"
    /\ svValid \in SUBSET AllDates
    /\ \E f \in InitFiles : svFs = [q \in Paths |-> IF q = ValidationFile THEN f ELSE NoFile]
    /\ svOld = NoFile
    /\ svPos = 0
    /\ DsIdle /\ PmIdle /\ XtIdle

NextSave ==
    \/ SaveBegin
    \/ \E io_ok \in BOOLEAN : SaveOpen(io_ok)
    \/ \E io_ok \in BOOLEAN : SaveWrite(io_ok)
    \/ SaveClose
    \/ \E io_ok \in BOOLEAN : SaveReplace(io_ok)
    \/ SaveCrash
    \/ SaveLoad
    \/ \E S \in SUBSET AllDates : SaveAgain(S)

SpecSave == InitSave /\ [][NextSave]_vars

\* a complete cache file: an object whose entries are ISO dates in
\* ascending order
CompleteCacheFile(f) ==
    /\ f.exists
    /\ json_load(f.content).ok
    /\ LET e == json_load(f.content).valid_partitions
       IN  /\ \A i \in DOMAIN e : IsIsoDate(e[i])
           /\ \A i \in DOMAIN e : \A j \in DOMAIN e :
                  i < j => DateLess(fromisoformat(e[i]), fromisoformat(e[j]))

\* the file a save of svValid writes
NewCacheFile == [exists |-> TRUE, content |-> SaveText]

\* C8: during a save and after a crash at any step of it the cache file is
\* the complete file from before the save or the complete new one, never a
\* part of one; the new one lists the ISO dates of the set in ascending
\* order, and loading it gives the saved set.
C8_AtomicReplace ==
    /\ svPc \in {"open", "write", "replace", "crashed", "failed", "done"} =>
          /\ svFs[ValidationFile] \in {svOld, NewCacheFile}
          /\ svFs[ValidationFile].exists => CompleteCacheFile(svFs[ValidationFile])
    /\ svPc = "done" =>
          /\ svFs[ValidationFile] = NewCacheFile
          /\ svFs[ValidationFile] = _save_validation_cache(svValid, svOld, TRUE)
          /\ CompleteCacheFile(svFs[ValidationFile])
          /\ _load_validation_cache(svFs[ValidationFile]) = svValid
    /\ svPc = "failed" =>
          svFs[ValidationFile] = _save_validation_cache(svValid, svOld, FALSE)

\* a crash in the middle of json.dump: the temp file holds a part of the new
\* text, the cache file is still the old one, which differs from the new
C8_Witness ==
    /\ svPc = "crashed"
    /\ svPos >= 2 /\ svPos < Len(SaveText)
    /\ svFs[TempFile].exists /\ ~json_load(svFs[TempFile].content).ok
    /\ svOld.exists /\ svOld # NewCacheFile
    /\ svFs[ValidationFile] = svOld

(***************************************************************************)
(* SpecChunk: chunk_apply, and the batching of compute                     *)
(***************************************************************************)
\* math.ceil(a / b) for a >= 0, b >= 1
ceil_div(a, b) == (a + b - 1) \div b

\* lambda args_lst: [fn(arg) for arg in args_lst]
ChunkFn(args_lst) == [i \in DOMAIN args_lst |-> TestFn(args_lst[i])]

\* reduce(lambda x, y: x + y, results), no initial value: TypeError on an
\* empty list
reduce_concat(results) ==
    IF results = <<>>
    THEN [raised |-> "TypeError", value |-> <<>>]
    ELSE [raised |-> "", value |-> Flatten(results)]

\* ParallelMap.chunk_apply(fn, args, batch_size, num_chunks), fn = TestFn,
\* on a pool of max_workers: [raised, value]
chunk_apply(args, batch_size, num_chunks, max_workers) ==
    IF batch_size # <<>> /\ num_chunks # <<>>
    THEN [raised |-> "RuntimeError", value |-> <<>>]
    ELSE IF num_chunks # <<>> /\ num_chunks[1] = 0
    THEN [raised |-> "ZeroDivisionError", value |-> <<>>]
    ELSE LET size == IF num_chunks # <<>> THEN ceil_div(Len(args), num_chunks[1])
                     ELSE IF batch_size = <<>> THEN ceil_div(Len(args), max_workers)
                     ELSE batch_size[1]
         IN  IF size = 0
             THEN \* range(0, len(lst), 0) in chunk_list
                  [raised |-> "ValueError", value |-> <<>>]
             ELSE LET chunked_args == chunk_list(args, size)
                      outs == [k \in DOMAIN chunked_args |->
                                  [exc |-> FALSE, val |-> ChunkFn(chunked_args[k])]]
                      call == ParallelMap(outs, chunked_args, FALSE, <<>>)
                  IN  reduce_concat(call.results)

\* the universe of the dataset whose batches are looked at: four days
BatchPartitions == << <<2024, 2, 27>>, <<2024, 2, 28>>, <<2024, 2, 29>>, <<2024, 3, 1>> >>

\* to_compute of compute() on a dataset with the partitions parts
to_compute(parts, v, recompute) ==
    IF recompute THEN parts
    ELSE SelectSeq(parts, LAMBDA d : d \notin v)

\* the lists of ints of length at most n
ArgLists(n) == UNION {[1 .. k -> 1 .. 2] : k \in 0 .. n}

\* None, or an int up to n
OptInt(n) == {<<>>} \cup {<<k>> : k \in 0 .. n}

ChunkApply(args, batch_size, num_chunks) ==
    /\ caCall' = [NoChunkCall EXCEPT !.op = "chunk_apply", !.args = args,
                     !.batch_size = batch_size, !.num_chunks = num_chunks]
    /\ \E r \in {chunk_apply(args, batch_size, num_chunks, MaxWorkers)} :
          caOut' = [NoChunkOut EXCEPT !.raised = r.raised, !.value = r.value]
    /\ UNCHANGED caOthers

\* compute(recompute, days_per_batch) up to the submission of its batches
ComputeBatches(v, recompute, days_per_batch) ==
    /\ caCall' = [NoChunkCall EXCEPT !.op = "compute", !.valid = v,
                     !.recompute = recompute, !.days_per_batch = days_per_batch]
    /\ \E tc \in {to_compute(BatchPartitions, v, recompute)} :
          caOut' = [NoChunkOut EXCEPT
                       !.to_compute = tc,
                       !.date_chunks =
                           _compute_partitions_batch(tc, days_per_batch,
                               [k \in 1 .. Len(tc) |-> "ok"]).date_chunks]
    /\ UNCHANGED caOthers

InitChunk == XtIdle /\ DsIdle /\ PmIdle /\ SvIdle

NextChunk ==
    \/ \E args \in ArgLists(MaxTasks), batch_size \in OptInt(MaxTasks),
          num_chunks \in OptInt(MaxTasks) : ChunkApply(args, batch_size, num_chunks)
    \/ \E v \in SUBSET Range(BatchPartitions), recompute \in BOOLEAN,
          days_per_batch \in 1 .. MaxBatch : ComputeBatches(v, recompute, days_per_batch)

SpecChunk == InitChunk /\ [][NextChunk]_vars

\* C11: chunk_apply(fn, args, batch_size or num_chunks), given one of the
\* two and that one at least 1, returns the flat list [fn(a) for a in args]
\* in input order, for every list args.
C11_ChunkApplyFlat ==
    (/\ caCall.op = "chunk_apply"
     /\ (caCall.batch_size = <<>>) # (caCall.num_chunks = <<>>)
     /\ \A n \in Range(caCall.batch_size) \cup Range(caCall.num_chunks) : n >= 1) =>
        /\ caOut.raised = ""
        /\ caOut.value = [i \in DOMAIN caCall.args |-> TestFn(caCall.args[i])]

\* C12: the batches of compute partition to_compute, each holds at most
\* days_per_batch dates in ascending order, and no partition date between
\* the first and the last date of a batch is missing from the batch.
C12_ContiguousBatches ==
    caCall.op = "compute" =>
        /\ Flatten(caOut.date_chunks) = caOut.to_compute
        /\ \A k \in DOMAIN caOut.date_chunks :
              LET chunk == caOut.date_chunks[k]
              IN  /\ Len(chunk) >= 1 /\ Len(chunk) <= caCall.days_per_batch
                  /\ \A i \in DOMAIN chunk : \A j \in DOMAIN chunk :
                         i < j => DateLess(chunk[i], chunk[j])
                  /\ \A d \in Range(BatchPartitions) :
                         (DateLess(chunk[1], d) /\ DateLess(d, chunk[Len(chunk)]))
                             => d \in Range(chunk)

(***************************************************************************)
(* SpecMeta: MetadataEngine._compute_partitions                            *)
(*                                                                         *)
(* Times are minutes since midnight of day 0; a date is the number of its  *)
(* day.  A backend row (a tick of the backend grid) is                     *)
(* [symbol, date, last_event_time].                                        *)
(***************************************************************************)
MinutesPerDay == 1440

\* grid_interval: Timedelta = Timedelta(hours=1)
grid_interval == 60

\* returns_interval: Timedelta = Timedelta(minutes=10)
returns_interval == 10

\* max(self.metadata_exprs["accum_returns"].keys()), in days
max_returns_lookback == 30

\* max(self.metadata_exprs["by_symbol_index"].keys()), in days
max_metadata_lookback == 7

\* a Date cast to a Datetime: its midnight
Midnight(date) == date * MinutesPerDay

\* Expr.dt.truncate(every)
truncate(t, every) == (t \div every) * every

\* Expr.is_between(lower, upper, closed="left") on a Datetime column with
\* Date bounds
is_between_left(t, lower_date, upper_date) ==
    Midnight(lower_date) <= t /\ t < Midnight(upper_date)

\* a rolling window that is closed on the right: (t - period, t]
in_window_right(x, t, period) == t - period < x /\ x <= t

\* rolling(index, period=period, closed="left"): the window [t - period, t)
in_window(x, t, period) == t - period <= x /\ x < t

\* self.backend_dataset.universe(): the (symbol, date) pairs of the backend
MdUniverse(ticks) == {[symbol |-> r.symbol, date |-> r.date] : r \in ticks}

\* self.returns_grid: every returns_interval of every (symbol, date) of the
\* universe, closed="left"
returns_grid(ticks) ==
    {[symbol |-> u.symbol, date |-> u.date,
      returns_grid_time |-> Midnight(u.date) + k * returns_interval] :
        u \in MdUniverse(ticks), k \in 0 .. (MinutesPerDay \div returns_interval) - 1}

\* returns_metadata: the (symbol, grid_time) pairs of the returns grid of
\* the range; query and rolling keep one row per row of the grid
returns_metadata(ticks, start_date, end_date) ==
    LET returns_query == {g \in returns_grid(ticks) :
                             /\ g.date >= start_date - max_returns_lookback
                             /\ g.date <= end_date}
        with_grid_time == {[symbol |-> g.symbol,
                            grid_time |-> truncate(g.returns_grid_time, grid_interval)
                                              + grid_interval] : g \in returns_query}
    IN  {g \in with_grid_time : is_between_left(g.grid_time, start_date, end_date)}

\* the rows of returns_query: the returns grid of the dates from
\* start_date - max_returns_lookback to end_date
returns_query(ticks, start_date, end_date) ==
    {g \in returns_grid(ticks) :
        /\ g.date >= start_date - max_returns_lookback
        /\ g.date <= end_date}

\* the ticks self.returns_engine.query scans with filter_by_query_dates:
\* those of the dates from the first start to the last end of the query
returns_inrange_db(ticks, queried) ==
    IF queried = {} THEN {}
    ELSE LET starts == {q.date : q \in queried}
             ends   == {(q.returns_grid_time + returns_interval) \div MinutesPerDay :
                           q \in queried}
             min_date == CHOOSE d \in starts : \A e \in starts : d <= e
             max_date == CHOOSE d \in ends : \A e \in ends : d >= e
         IN  {r \in ticks : min_date <= r.date /\ r.date <= max_date}

\* the times of the ticks the query joins to the start and to the end event
\* of the row g of returns_query: the latest tick of the symbol at or before
\* the event
joined_ticks(visible, g) ==
    LET AsOf(t) == LET before == {r.last_event_time : r \in {x \in visible :
                                     x.symbol = g.symbol /\ x.last_event_time <= t}}
                   IN  {x \in before : \A y \in before : y <= x}
    IN  AsOf(g.returns_grid_time) \cup AsOf(g.returns_grid_time + returns_interval)

\* the times of the backend ticks the returns aggregates of the row
\* (symbol, grid_time) of returns_metadata are computed from: the row is
\* the last row of the returns grid in the bucket, and its aggregates are
\* over the rows of its rolling window
returns_sources(visible, queried, symbol, grid_time) ==
    LET bucket  == {g.returns_grid_time : g \in {q \in queried :
                       /\ q.symbol = symbol
                       /\ truncate(q.returns_grid_time, grid_interval) + grid_interval
                             = grid_time}}
        last_g  == CHOOSE t \in bucket : \A u \in bucket : u <= t
        window  == {g \in queried :
                       /\ g.symbol = symbol
                       /\ in_window(g.returns_grid_time, last_g,
                                    max_returns_lookback * MinutesPerDay)}
    IN  UNION {joined_ticks(visible, g) : g \in window}

\* rolling_metadata: the last backend row of every (symbol, grid_time) of
\* the range, with the times of the backend rows of its rolling window
rolling_metadata(ticks, start_date, end_date) ==
    LET inrange_db == {r \in ticks :
                          /\ r.date >= start_date - max_metadata_lookback
                          /\ r.date <= end_date}
        GridTime(r) == truncate(r.last_event_time, grid_interval) + grid_interval
        filtered == {r \in inrange_db :
                        is_between_left(GridTime(r), start_date, end_date)}
        last_of_group == {r \in filtered :
                             \A q \in filtered :
                                 (q.symbol = r.symbol /\ GridTime(q) = GridTime(r))
                                     => q.last_event_time <= r.last_event_time}
    IN  {[symbol |-> r.symbol, date |-> r.date,
          last_event_time |-> r.last_event_time, grid_time |-> GridTime(r),
          tick_sources |-> {q.last_event_time : q \in {x \in inrange_db :
                               /\ x.symbol = r.symbol
                               /\ in_window(x.last_event_time, r.last_event_time,
                                            max_metadata_lookback * MinutesPerDay)}}] :
            r \in last_of_group}

\* MetadataEngine._compute_partitions(dates): the rows of final_metadata
\* (grid_time is renamed to time)
metadata_compute_partitions(ticks, dates) ==
    LET start_date == CHOOSE d \in Range(dates) : \A e \in Range(dates) : d <= e
        end_date   == CHOOSE d \in Range(dates) : \A e \in Range(dates) : d >= e
        rm == returns_metadata(ticks, start_date, end_date)
        queried == returns_query(ticks, start_date, end_date)
        visible == returns_inrange_db(ticks, queried)
    IN  {[symbol |-> r.symbol, date |-> r.date,
          last_event_time |-> r.last_event_time, time |-> r.grid_time,
          tick_sources |-> r.tick_sources,
          returns_sources |-> returns_sources(visible, queried, r.symbol, r.grid_time)] :
            r \in {x \in rolling_metadata(ticks, start_date, end_date) :
                      [symbol |-> x.symbol, grid_time |-> x.grid_time] \in rm}}

\* the backend rows there can be: early, at noon, at one o'clock, and in
\* the last hour of a day
TickOffsets == {5, 720, 780, 1415}

BackendRows ==
    {[symbol |-> "BTC", date |-> d, last_event_time |-> Midnight(d) + o] :
        d \in 0 .. MaxDays, o \in TickOffsets}

\* the contiguous batch [d0 .. dn]
DateBatch(d0, dn) == [i \in 1 .. (dn - d0 + 1) |-> d0 + i - 1]

\* one call on the engine, whose backend stays as it is
ComputePartitions(d0, dn) ==
    /\ mdCall' = [mdCall EXCEPT !.op = "_compute_partitions", !.dates = DateBatch(d0, dn)]
    /\ mdOut' = metadata_compute_partitions(mdCall.ticks, DateBatch(d0, dn))
    /\ UNCHANGED mdOthers

InitMeta ==
    /\ \E ticks \in {T \in SUBSET BackendRows : Cardinality(T) <= MaxTicks} :
          mdCall = [op |-> "none", ticks |-> ticks, dates |-> <<>>]
    /\ mdOut = {}
    /\ CaIdle /\ PpIdle /\ KwIdle /\ RqIdle /\ GqIdle /\ CcIdle
    /\ DsIdle /\ PmIdle /\ SvIdle

NextMeta ==
    \E d0 \in 0 .. MaxDays : \E dn \in d0 .. MaxDays : ComputePartitions(d0, dn)

SpecMeta == InitMeta /\ [][NextMeta]_vars

\* C13: for every batch of dates [d0 .. dn], the frame _compute_partitions
\* of the MetadataEngine returns has a row with date d for every requested
\* date d that has backend ticks, the last date dn among them.
C13_CoversRequestedDates ==
    mdCall.op = "_compute_partitions" =>
        \A d \in Range(mdCall.dates) :
            (\E r \in mdCall.ticks : r.date = d) => \E row \in mdOut : row.date = d

\* C24: every value of a metadata row at time T, the rolling aggregates of
\* the ticks and those of the returns, is computed only from backend ticks
\* whose time is strictly less than T.
C24_OnlyEarlierTicks ==
    mdCall.op = "_compute_partitions" =>
        \A row \in mdOut :
            /\ row.last_event_time < row.time
            /\ \A t \in row.tick_sources \cup row.returns_sources : t < row.time

\* a row whose returns are computed from two ticks, one of them joined at
\* its own time, and whose rolling window holds an earlier tick
C24_Witness ==
    /\ mdCall.op = "_compute_partitions"
    /\ \E row \in mdOut :
          /\ row.tick_sources # {}
          /\ Cardinality(row.returns_sources) = 2
          /\ row.last_event_time \in row.returns_sources
          /\ row.last_event_time % returns_interval = 0

(***************************************************************************)
(* SpecFrames: the paths that hand a lazy frame onward                     *)
(***************************************************************************)
\* self._symbol_enum = pl.Enum(universe_df['symbol'].unique().sort())
symbol_enum == "Enum(universe)"

\* the dtypes a symbol column can have in a parquet file or in a frame a
\* subclass computes; "absent": there is no symbol column
SymbolDtypes == {"absent", "String", "Categorical", "Enum(backend)", symbol_enum}

\* ByDateDataview._postprocess_lf
_postprocess_lf(lf) ==
    IF lf.symbol # "absent"
    THEN [symbol |-> symbol_enum, postprocessed |-> TRUE]
    ELSE [lf EXCEPT !.postprocessed = TRUE]

\* pl.scan_parquet / pl.concat of scans: the frame as the files hold it
scan_parquet(stored) == [symbol |-> stored, postprocessed |-> FALSE]

\* ByDateDataview.__getitem__(dates), dates a list: validate_partition
\* raises for the first invalid date; raised stands for any exception
getitem_dates(stored, dates, invalid) ==
    IF \/ \E i \in DOMAIN dates : dates[i] \in invalid
       \/ dates = <<>>    \* pl.concat([]) raises ValueError
    THEN [raised |-> TRUE, frame |-> NoFrame]
    ELSE [raised |-> FALSE, frame |-> _postprocess_lf(scan_parquet(stored))]

\* ByDateDataview.__getitem__(None): validate() raises when a partition is
\* invalid
getitem_none(stored, invalid) ==
    IF invalid # {}
    THEN [raised |-> TRUE, frame |-> NoFrame]
    ELSE [raised |-> FALSE, frame |-> scan_parquet(stored)]

\* ByDateDataview.lazyframe(validate=True)
lazyframe(stored, readable) ==
    LET lf == _postprocess_lf(scan_parquet(stored))
    IN  IF ~readable THEN [raised |-> TRUE, frame |-> NoFrame]
        ELSE [raised |-> FALSE, frame |-> lf]

\* _compute_partitions_worker: frame is the frame given to sink_parquet;
\* an exception of _compute_partitions is caught (the worker returns False)
compute_worker(computed, compute_ok) ==
    IF ~compute_ok THEN [raised |-> FALSE, frame |-> NoFrame]
    ELSE [raised |-> FALSE, frame |-> [symbol |-> computed, postprocessed |-> FALSE]]

\* the lists of dates asked for
FrameDates == {<<>>, <<1>>, <<2>>, <<1, 2>>, <<2, 1>>}

GetItemDates(stored, dates, invalid) ==
    /\ ppCall' = [NoFrameCall EXCEPT !.op = "getitem_dates", !.stored = stored,
                     !.dates = dates, !.invalid = invalid]
    /\ ppOut' = getitem_dates(stored, dates, invalid)
    /\ UNCHANGED ppOthers

GetItemNone(stored, invalid) ==
    /\ ppCall' = [NoFrameCall EXCEPT !.op = "getitem_none", !.stored = stored,
                     !.invalid = invalid]
    /\ ppOut' = getitem_none(stored, invalid)
    /\ UNCHANGED ppOthers

LazyFrame(stored, readable) ==
    /\ ppCall' = [NoFrameCall EXCEPT !.op = "lazyframe", !.stored = stored,
                     !.readable = readable]
    /\ ppOut' = lazyframe(stored, readable)
    /\ UNCHANGED ppOthers

ComputeWorker(computed, compute_ok) ==
    /\ ppCall' = [NoFrameCall EXCEPT !.op = "compute_worker", !.computed = computed,
                     !.readable = compute_ok]
    /\ ppOut' = compute_worker(computed, compute_ok)
    /\ UNCHANGED ppOthers

InitFrames == XtIdle /\ DsIdle /\ PmIdle /\ SvIdle

NextFrames ==
    \/ \E stored \in SymbolDtypes, dates \in FrameDates, invalid \in SUBSET {1, 2} :
          GetItemDates(stored, dates, invalid)
    \/ \E stored \in SymbolDtypes, invalid \in SUBSET {1, 2} : GetItemNone(stored, invalid)
    \/ \E stored \in SymbolDtypes, readable \in BOOLEAN : LazyFrame(stored, readable)
    \/ \E computed \in SymbolDtypes, compute_ok \in BOOLEAN :
          ComputeWorker(computed, compute_ok)

SpecFrames == InitFrames /\ [][NextFrames]_vars

\* a frame that has been handed onward by the last call
HandedOnward ==
    /\ ppCall.op \in {"getitem_dates", "getitem_none", "lazyframe", "compute_worker"}
    /\ ~ppOut.raised
    /\ ppCall.op = "compute_worker" => ppCall.readable

\* C14: every frame handed onward, by get(dates), by get() with no dates,
\* by lazyframe() and by a compute worker to the sink, has been through
\* post-processing: a symbol column it has is of the universe enum.
C14_PostprocessOnEveryPath ==
    HandedOnward =>
        /\ ppOut.frame.postprocessed
        /\ ppOut.frame.symbol \in {"absent", symbol_enum}

(***************************************************************************)
(* SpecRebuild: the dataset a worker builds from                           *)
(* (path, parquet_names, _get_self_kwargs())                               *)
(*                                                                         *)
(* An instance is a function from the fields of its dataclass to values;   *)
(* a value is a sequence of strings: <<"default">> the default of the      *)
(* field, <<"custom">> a value the caller gave, or a value __post_init__   *)
(* derives from other fields.                                              *)
(***************************************************************************)
Default == <<"default">>

Custom == <<"custom">>

Classes == {"grid", "metadata", "research"}

\* the fields of ByDateDataview every subclass has
BaseFields == {"path", "num_workers", "parquet_names"}

\* the init fields of BinanceLastTradesGrid, MetadataEngine and
\* BinanceResearchDataset
InitFields(class) ==
    BaseFields \cup
    CASE class = "grid" ->
           {"peg_symbol", "grid_interval", "dataset_type", "src_path"}
      [] class = "metadata" ->
           {"backend_dataset", "last_event_time_expr", "returns_engine_kwargs",
            "returns_query_kwargs", "returns_interval", "metadata_exprs",
            "quantile_expand_exprs", "grid_interval", "verbose_debug"}
      [] class = "research" ->
           {"dataset_type", "backend_grid_interval", "index_grid_interval",
            "mark_exprs", "peg_symbol", "save_root", "returns_mark_exprs",
            "returns_engine_kwargs", "returns_query_kwargs",
            "metadata_engine_kwargs", "metadata_query_kwargs"}

\* the keys of _get_self_kwargs() of each class (the base class adds none)
KwargKeys(class) ==
    CASE class = "grid" -> {"src_path", "peg_symbol", "grid_interval"}
      [] class = "metadata" ->
           {"backend_dataset", "returns_engine_kwargs", "returns_query_kwargs",
            "returns_interval", "grid_interval", "verbose_debug"}
      [] class = "research" ->
           {"dataset_type", "backend_grid_interval", "index_grid_interval",
            "peg_symbol", "returns_mark_exprs", "returns_engine_kwargs",
            "returns_query_kwargs", "metadata_engine_kwargs",
            "metadata_query_kwargs"}

\* the fields _compute_partitions and _valid_partition of each class read,
\* directly or through what __post_init__ builds from them
ReadFields(class) ==
    {"path", "parquet_names"} \cup
    CASE class = "grid" -> {"src_path", "grid_interval"}
      [] class = "metadata" ->
           {"backend_dataset", "last_event_time_expr", "returns_engine_kwargs",
            "returns_query_kwargs", "returns_interval", "metadata_exprs",
            "quantile_expand_exprs", "grid_interval", "verbose_debug"}
      [] class = "research" ->
           {"dataset_type", "backend_grid_interval", "index_grid_interval",
            "peg_symbol", "mark_exprs", "returns_engine_kwargs",
            "returns_query_kwargs", "metadata_engine_kwargs",
            "metadata_query_kwargs"}

\* __post_init__ of each class: the fields it assigns
class_post_init(class, inst) ==
    CASE class = "grid" ->
           IF inst["dataset_type"] # Default
           THEN [inst EXCEPT
                    !["src_path"] = <<"hive_path">> \o inst["dataset_type"]
                                        \o inst["peg_symbol"],
                    !["path"] = <<"grid_hive_path">> \o inst["dataset_type"]
                                    \o inst["peg_symbol"] \o inst["grid_interval"]]
           ELSE inst
      [] class = "metadata" -> inst
      [] class = "research" ->
           [inst EXCEPT
               !["path"] = <<"save_root">> \o inst["save_root"]
                               \o inst["peg_symbol"] \o inst["dataset_type"]
                               \o inst["index_grid_interval"]
                               \o inst["backend_grid_interval"]]

\* class(**given): the dataclass takes the defaults of the fields not given
new_instance(class, given) ==
    class_post_init(class,
        [f \in InitFields(class) |-> IF f \in DOMAIN given THEN given[f] ELSE Default])

\* self._get_self_kwargs()
_get_self_kwargs(class, inst) == [f \in KwargKeys(class) |-> inst[f]]

\* dataset_class(path=path, parquet_names=parquet_names, **dataset_kwargs)
worker_instance(class, inst) ==
    LET kwargs == _get_self_kwargs(class, inst)
    IN  new_instance(class,
            [f \in {"path", "parquet_names"} \cup DOMAIN kwargs |->
                IF f \in DOMAIN kwargs THEN kwargs[f] ELSE inst[f]])

\* the orchestrating instances: the caller gives at most MaxCustom fields
Orchestrators(class) ==
    {new_instance(class, [f \in given |-> Custom]) :
        given \in {G \in SUBSET InitFields(class) : Cardinality(G) <= MaxCustom}}

\* _compute_partitions_batch / _check_partitions_batch hand the class, the
\* path and the kwargs to a worker, which builds its instance
Rebuild ==
    /\ kwCall.op = "construct"
    /\ kwCall' = [kwCall EXCEPT !.op = "rebuild"]
    /\ kwOut' = worker_instance(kwCall.class, kwCall.inst)
    /\ UNCHANGED kwOthers

\* the next batch goes to another worker
NextWorker ==
    /\ kwCall.op = "rebuild"
    /\ kwCall' = [kwCall EXCEPT !.op = "construct"]
    /\ kwOut' = <<>>
    /\ UNCHANGED kwOthers

InitRebuild ==
    /\ \E class \in Classes : \E inst \in Orchestrators(class) :
          kwCall = [op |-> "construct", class |-> class, inst |-> inst]
    /\ kwOut = <<>>
    /\ CaIdle /\ MdIdle /\ PpIdle /\ RqIdle /\ GqIdle /\ CcIdle
    /\ DsIdle /\ PmIdle /\ SvIdle

NextRebuild == Rebuild \/ NextWorker

SpecRebuild == InitRebuild /\ [][NextRebuild]_vars

\* C15: for each dataset subclass, the instance a worker builds agrees with
\* the orchestrating instance in every field that _compute_partitions or the
\* validity predicate reads.
C15_WorkerConfiguredAlike ==
    kwCall.op = "rebuild" =>
        \A f \in ReadFields(kwCall.class) : kwOut[f] = kwCall.inst[f]

(***************************************************************************)
(* SpecQuery: ReturnsEngine.query                                          *)
(*                                                                         *)
(* Times and durations are minutes, as in SpecMeta.  A tick of self.db is  *)
(* [date, symbol, tick_time, fair].  A value of a column the engine adds   *)
(* is [kind, num, den]: kind "null" (no value), "num" (the number          *)
(* num / den), or "nan" / "inf", the floats a division by 0.0 gives.       *)
(***************************************************************************)
Null == [kind |-> "null", num |-> 0, den |-> 1]

NaN == [kind |-> "nan", num |-> 0, den |-> 1]

Inf == [kind |-> "inf", num |-> 0, den |-> 1]

Number(n) == [kind |-> "num", num |-> n, den |-> 1]

\* a - b on columns: null if either is
Minus(a, b) ==
    IF a.kind = "null" \/ b.kind = "null" THEN Null ELSE Number(a.num - b.num)

\* a / b on float columns: null if either is; x / 0.0 is inf, 0.0 / 0.0 nan
Divide(a, b) ==
    IF a.kind = "null" \/ b.kind = "null" THEN Null
    ELSE IF b.num = 0 THEN (IF a.num = 0 THEN NaN ELSE Inf)
    ELSE [kind |-> "num", num |-> a.num, den |-> b.num]

\* Expr.dt.date()
date_of(t) == t \div MinutesPerDay

\* list(self.db_symbol_enum.categories)
db_symbol_enum == {"BTC"}

\* query_lf.with_row_index('row_id'), then the filter to the symbols of the
\* backend and end_time: the rows of query_with_both
query_with_both(rows, mark_duration) ==
    {[row_id |-> i - 1, symbol |-> rows[i].symbol, start_time |-> rows[i].start_time,
      end_time |-> rows[i].start_time + mark_duration] :
        i \in {j \in DOMAIN rows : rows[j].symbol \in db_symbol_enum}}

\* inrange_db: with filter_by_query_dates the ticks whose date is between
\* the least date of a start_time and the greatest date of an end_time of
\* query_lf (none when query_lf is empty: the bounds are null)
inrange_db(db, rows, mark_duration, filter_by_query_dates) ==
    IF ~filter_by_query_dates THEN db
    ELSE IF rows = <<>> THEN {}
    ELSE LET starts == {date_of(rows[i].start_time) : i \in DOMAIN rows}
             ends   == {date_of(rows[i].start_time + mark_duration) : i \in DOMAIN rows}
             min_date == CHOOSE d \in starts : \A e \in starts : d <= e
             max_date == CHOOSE d \in ends : \A e \in ends : d >= e
         IN  {r \in db : min_date <= r.date /\ r.date <= max_date}

\* long_query: the start and the end event of every row of query_with_both
long_query(rows, mark_duration) ==
    {[row_id |-> q.row_id, symbol |-> q.symbol, query_type |-> "start",
      query_time |-> q.start_time] : q \in query_with_both(rows, mark_duration)}
    \cup
    {[row_id |-> q.row_id, symbol |-> q.symbol, query_type |-> "end",
      query_time |-> q.end_time] : q \in query_with_both(rows, mark_duration)}

\* join_asof(strategy='backward', by='symbol') for one event, and the
\* columns tick_to_query_lag and fair computed from it
joined_lf(event, ticks, tick_lag_tolerance) ==
    LET before == {r \in ticks : r.symbol = event.symbol /\ r.tick_time <= event.query_time}
    IN  IF before = {}
        THEN [tick_time |-> Null, tick_to_query_lag |-> Null, fair |-> Null]
        ELSE LET r == CHOOSE x \in before : \A y \in before : y.tick_time <= x.tick_time
             IN  [tick_time |-> Number(r.tick_time),
                  tick_to_query_lag |-> Number(event.query_time - r.tick_time),
                  fair |-> IF r.tick_time + tick_lag_tolerance >= event.query_time
                           THEN Number(r.fair) ELSE Null]

\* the least of two values, nulls skipped
agg_min(a, b) ==
    IF a.kind = "null" THEN b
    ELSE IF b.kind = "null" THEN a
    ELSE IF a.num <= b.num THEN a ELSE b

\* pl.col('tick_to_query_lag').max() over the two events of a row: nulls
\* are skipped
agg_max(a, b) ==
    IF a.kind = "null" THEN b
    ELSE IF b.kind = "null" THEN a
    ELSE IF a.num >= b.num THEN a ELSE b

\* the columns the engine adds, all null
NullCols == [max_tick_to_query_lag |-> Null, return |-> Null,
             start_fair |-> Null, end_fair |-> Null,
             start_tick_time |-> Null, end_tick_time |-> Null]

\* append_cols: group_by(row_id, symbol).agg(append_columns()) for one row
append_cols(start, end) ==
    [max_tick_to_query_lag |-> agg_max(start.tick_to_query_lag, end.tick_to_query_lag),
     return |-> Divide(Minus(end.fair, start.fair), start.fair),
     start_fair |-> start.fair, end_fair |-> end.fair,
     start_tick_time |-> start.tick_time, end_tick_time |-> end.tick_time]

OutRow(rows, i, cols) ==
    [row_id |-> i - 1, symbol |-> rows[i].symbol, start_time |-> rows[i].start_time,
     cols |-> cols]

\* a join that keeps only the rows that have appended columns
inner_join(rows, appended) ==
    LET kept == SelectSeq([i \in DOMAIN rows |-> i], LAMBDA i : i - 1 \in DOMAIN appended)
    IN  [k \in DOMAIN kept |-> OutRow(rows, kept[k], appended[kept[k] - 1])]

\* query_lf_withidx.join(append_cols, on='row_id', how='left')
left_join(rows, appended) ==
    [i \in DOMAIN rows |->
        OutRow(rows, i, IF i - 1 \in DOMAIN appended THEN appended[i - 1] ELSE NullCols)]

\* ReturnsEngine.query with every optional column appended: the rows of
\* the frame it returns
query(db, rows, mark_duration, tick_lag_tolerance, filter_by_query_dates) ==
    LET ticks  == inrange_db(db, rows, mark_duration, filter_by_query_dates)
        events == long_query(rows, mark_duration)
        ids    == {e.row_id : e \in events}
        Event(id, type) == CHOOSE e \in events : e.row_id = id /\ e.query_type = type
        appended == [id \in ids |->
                        append_cols(joined_lf(Event(id, "start"), ticks, tick_lag_tolerance),
                                    joined_lf(Event(id, "end"), ticks, tick_lag_tolerance))]
    IN  left_join(rows, appended)

\* the symbols a query row names: one of the backend, one it does not know
QuerySymbols == {"BTC", "DOGE"}

\* the tick times of the backend: 23:50 of day 0, 00:05 and 00:10 of day 1
TickTimes == {1430, 1445, 1450}

TickFairs == {0, 1, 2}

\* the backends: at most MaxTicks ticks of the backend's symbol, no two at
\* the same time, each in the date partition of its tick_time
Backends ==
    {db \in SUBSET [date : {date_of(t) : t \in TickTimes}, symbol : db_symbol_enum,
                    tick_time : TickTimes, fair : TickFairs] :
        /\ Cardinality(db) <= MaxTicks
        /\ \A r \in db : r.date = date_of(r.tick_time)
        /\ \A r1, r2 \in db : r1.tick_time = r2.tick_time => r1 = r2}

\* start times of a query row: 23:45 of day 0, 00:05 of day 1
StartTimes == {1425, 1445}

MarkDurations == {0, 5}

Tolerances == {3, 20}

QueryRows == [symbol : QuerySymbols, start_time : StartTimes]

QueryFrames == UNION {[1..n -> QueryRows] : n \in 0..MaxRows}

\* a caller runs query on a frame
Query(rows, mark_duration, tick_lag_tolerance, filter_by_query_dates) ==
    /\ rqCall.op = "none"
    /\ rqCall' = [op |-> "query", rows |-> rows, mark_exprs |-> <<>>,
                  mark_duration |-> mark_duration,
                  tick_lag_tolerance |-> tick_lag_tolerance,
                  filter_by_query_dates |-> filter_by_query_dates]
    /\ \E r \in {query(rqDb, rows, mark_duration, tick_lag_tolerance,
                       filter_by_query_dates)} : rqOut' = r
    /\ UNCHANGED <<rqDb, rqOthers>>

\* the caller is done with the frame; the engine keeps only self.db
QueryReturn ==
    /\ rqCall.op # "none"
    /\ rqCall' = NoQuery
    /\ rqOut' = <<>>
    /\ UNCHANGED <<rqDb, rqOthers>>

InitQuery ==
    /\ rqDb \in Backends
    /\ rqCall = NoQuery
    /\ rqOut = <<>>
    /\ CaIdle /\ MdIdle /\ PpIdle /\ KwIdle /\ GqIdle /\ CcIdle
    /\ DsIdle /\ PmIdle /\ SvIdle

NextQuery ==
    \/ \E rows \in QueryFrames, d \in MarkDurations, tol \in Tolerances, f \in BOOLEAN :
          Query(rows, d, tol, f)
    \/ QueryReturn

SpecQuery == InitQuery /\ [][NextQuery]_vars

\* a value that stands for "absent": null or NaN
Absent(v) == v.kind \in {"null", "nan"}

\* the rows of the returned frame whose symbol the backend knows
KnownRows == {k \in DOMAIN rqOut : rqOut[k].symbol \in db_symbol_enum}

\* the ticks of the backend at or before time t for a symbol
TicksAtOrBefore(symbol, t) ==
    {r \in rqDb : r.symbol = symbol /\ r.tick_time <= t}

LatestTick(symbol, t) ==
    CHOOSE x \in TicksAtOrBefore(symbol, t) :
        \A y \in TicksAtOrBefore(symbol, t) : y.tick_time <= x.tick_time

\* what the event of a row at query_time should have joined and kept
EventJoinedLatest(symbol, query_time, tick_time, fair) ==
    IF TicksAtOrBefore(symbol, query_time) = {}
    THEN tick_time = Null /\ fair = Null
    ELSE LET r == LatestTick(symbol, query_time)
         IN  /\ tick_time = Number(r.tick_time)
             /\ fair = IF r.tick_time + rqCall.tick_lag_tolerance >= query_time
                       THEN Number(r.fair) ELSE Null

\* C16: each query event is joined to the most recent tick of its symbol
\* with tick_time <= query_time, and the tick's fair is kept exactly when
\* tick_time + tick_lag_tolerance >= query_time.
C16_JoinedToLatestTick ==
    rqCall.op = "query" =>
        \A k \in KnownRows :
            /\ EventJoinedLatest(rqOut[k].symbol, rqOut[k].start_time,
                                 rqOut[k].cols.start_tick_time, rqOut[k].cols.start_fair)
            /\ EventJoinedLatest(rqOut[k].symbol,
                                 rqOut[k].start_time + rqCall.mark_duration,
                                 rqOut[k].cols.end_tick_time, rqOut[k].cols.end_fair)

\* C17: return is (fair_end - fair_start) / fair_start; it is NaN when
\* either fair is NaN; it is NaN, not infinity, when fair_start is 0; it is
\* 0 when mark_duration is 0 and the start has a valid nonzero fair.
C17_ReturnFormula ==
    rqCall.op = "query" =>
        \A k \in KnownRows :
            LET s == rqOut[k].cols.start_fair
                e == rqOut[k].cols.end_fair
                ret == rqOut[k].cols.return
            IN  /\ (Absent(s) \/ Absent(e)) => Absent(ret)
                /\ (~Absent(s) /\ ~Absent(e) /\ s.num = 0) => Absent(ret)
                /\ (~Absent(s) /\ ~Absent(e) /\ s.num # 0) =>
                       ret = [kind |-> "num", num |-> e.num - s.num, den |-> s.num]
                /\ (rqCall.mark_duration = 0 /\ ~Absent(s) /\ s.num # 0) =>
                       (ret.kind = "num" /\ ret.num = 0)

\* C18: the returned frame has exactly one row for each input row; a row
\* whose symbol the backend does not know is kept with every appended
\* column absent.
C18_OneRowPerInputRow ==
    rqCall.op = "query" =>
        /\ Len(rqOut) = Len(rqCall.rows)
        /\ \A i \in DOMAIN rqCall.rows :
              /\ Cardinality({k \in DOMAIN rqOut : rqOut[k].row_id = i - 1}) = 1
              /\ \A k \in DOMAIN rqOut :
                    rqOut[k].row_id = i - 1 =>
                        /\ rqOut[k].symbol = rqCall.rows[i].symbol
                        /\ rqOut[k].start_time = rqCall.rows[i].start_time
                        /\ rqOut[k].symbol \notin db_symbol_enum =>
                               \A c \in DOMAIN rqOut[k].cols : Absent(rqOut[k].cols[c])

\* a frame of two rows, one of an unknown symbol and one with a return
C18_Witness ==
    /\ rqCall.op = "query"
    /\ Len(rqOut) = 2
    /\ \E k \in DOMAIN rqOut : rqOut[k].symbol \notin db_symbol_enum
    /\ \E k \in DOMAIN rqOut : rqOut[k].cols.return.kind = "num"

\* C19: a row whose start_time is earlier than every tick of its symbol
\* has an absent return and an absent max_tick_to_query_lag.
C19_BeforeFirstTick ==
    rqCall.op = "query" =>
        \A k \in KnownRows :
            (\A r \in rqDb : r.symbol = rqOut[k].symbol => rqOut[k].start_time < r.tick_time)
                => /\ Absent(rqOut[k].cols.return)
                   /\ Absent(rqOut[k].cols.max_tick_to_query_lag)

\* an event of row k joined a tick that is too far behind its query time
StaleEvent(k) ==
    \/ /\ rqOut[k].cols.start_tick_time.kind = "num"
       /\ rqOut[k].cols.start_tick_time.num + rqCall.tick_lag_tolerance
             < rqOut[k].start_time
    \/ /\ rqOut[k].cols.end_tick_time.kind = "num"
       /\ rqOut[k].cols.end_tick_time.num + rqCall.tick_lag_tolerance
             < rqOut[k].start_time + rqCall.mark_duration

LagExceedsTolerance(k) ==
    /\ rqOut[k].cols.max_tick_to_query_lag.kind = "num"
    /\ rqOut[k].cols.max_tick_to_query_lag.num > rqCall.tick_lag_tolerance

\* C20 as stated: a return that is absent because of staleness or because
\* of a missing symbol comes with a max_tick_to_query_lag that is present
\* and greater than the tolerance.
C20_AsStated ==
    rqCall.op = "query" =>
        \A k \in DOMAIN rqOut :
            (Absent(rqOut[k].cols.return)
                /\ (StaleEvent(k) \/ rqOut[k].symbol \notin db_symbol_enum))
                => LagExceedsTolerance(k)

\* C20: a row one of whose events joined a tick that is too stale has an
\* absent return and a max_tick_to_query_lag that is present and greater
\* than the tolerance; a row of a symbol the backend does not have has an
\* absent return and an absent max_tick_to_query_lag.
C20_StaleLagExceedsTolerance ==
    rqCall.op = "query" =>
        \A k \in DOMAIN rqOut :
            /\ StaleEvent(k) =>
                  (Absent(rqOut[k].cols.return) /\ LagExceedsTolerance(k))
            /\ rqOut[k].symbol \notin db_symbol_enum =>
                  (Absent(rqOut[k].cols.return)
                      /\ Absent(rqOut[k].cols.max_tick_to_query_lag))

\* a row whose start joined a fresh tick and whose end joined a stale one
C20_Witness ==
    /\ rqCall.op = "query"
    /\ \E k \in KnownRows :
          /\ rqOut[k].cols.start_fair.kind = "num"
          /\ rqOut[k].cols.end_tick_time.kind = "num"
          /\ rqOut[k].cols.end_fair.kind = "null"
          /\ StaleEvent(k)
          /\ LagExceedsTolerance(k)

\* C21: query with filter_by_query_dates = TRUE returns the frame query
\* with filter_by_query_dates = FALSE returns, for every backend and query.
C21_DateFilterChangesNothing ==
    rqCall.op = "query" =>
        rqOut = query(rqDb, rqCall.rows, rqCall.mark_duration,
                      rqCall.tick_lag_tolerance, ~rqCall.filter_by_query_dates)

(***************************************************************************)
(* SpecBatch: ReturnsEngine.query_batch                                    *)
(*                                                                         *)
(* mark_exprs is a sequence, in the order of the keys of the dict, of      *)
(* [name, offset, mark_duration]: the start expression of the entry is     *)
(* the start_time of the row offset by offset.                             *)
(***************************************************************************)
\* frames: one per entry of mark_exprs, concatenated; pos is the position
\* of return_col_name in return_col_enum
batch_query_with_both(rows, marks) ==
    {[row_id |-> i - 1, symbol |-> rows[i].symbol,
      return_col_name |-> marks[j].name, pos |-> j,
      start_time |-> rows[i].start_time + marks[j].offset,
      end_time |-> rows[i].start_time + marks[j].offset + marks[j].mark_duration] :
        i \in {k \in DOMAIN rows : rows[k].symbol \in db_symbol_enum}, j \in DOMAIN marks}

\* min(all_min_dates) and max(all_max_dates) compare None with None when
\* query_lf is empty and mark_exprs has more than one entry
batch_dates_raise(rows, marks, filter_by_query_dates) ==
    filter_by_query_dates /\ rows = <<>> /\ Len(marks) > 1

batch_inrange_db(db, rows, marks, filter_by_query_dates) ==
    IF ~filter_by_query_dates THEN db
    ELSE IF rows = <<>> THEN {}
    ELSE LET starts == {date_of(rows[i].start_time + marks[j].offset) :
                            i \in DOMAIN rows, j \in DOMAIN marks}
             ends   == {date_of(rows[i].start_time + marks[j].offset + marks[j].mark_duration) :
                            i \in DOMAIN rows, j \in DOMAIN marks}
             min_date == CHOOSE d \in starts : \A e \in starts : d <= e
             max_date == CHOOSE d \in ends : \A e \in ends : d >= e
         IN  {r \in db : min_date <= r.date /\ r.date <= max_date}

batch_long_query(rows, marks) ==
    {[row_id |-> q.row_id, symbol |-> q.symbol, return_col_name |-> q.return_col_name,
      pos |-> q.pos, query_type |-> "start", query_time |-> q.start_time] :
        q \in batch_query_with_both(rows, marks)}
    \cup
    {[row_id |-> q.row_id, symbol |-> q.symbol, return_col_name |-> q.return_col_name,
      pos |-> q.pos, query_type |-> "end", query_time |-> q.end_time] :
        q \in batch_query_with_both(rows, marks)}

\* long_query is sorted by (symbol, return_col_name, query_time): the
\* query_time of a symbol is in order only if no event of an earlier entry
\* is later than an event of a later entry
LongQuerySorted(events) ==
    \A e1, e2 \in events :
        (e1.symbol = e2.symbol /\ e1.pos < e2.pos) => e1.query_time <= e2.query_time

\* no tick joined
NoTick == [date |-> 0, symbol |-> "none", tick_time |-> 0, fair |-> 0]

\* the tick join_asof gives an event of a sorted long_query
asof_backward(event, ticks) ==
    LET before == {r \in ticks : r.symbol = event.symbol /\ r.tick_time <= event.query_time}
    IN  IF before = {} THEN NoTick
        ELSE CHOOSE x \in before : \A y \in before : y.tick_time <= x.tick_time

\* the joins join_asof can give: the backward one when the left side is
\* sorted by query_time within each symbol; when it is not, polars gives
\* no guarantee, and every tick of the symbol, or none, can come out
BatchJoins(events, ticks) ==
    IF LongQuerySorted(events)
    THEN {[e \in events |-> asof_backward(e, ticks)]}
    ELSE {f \in [events -> ticks \cup {NoTick}] :
             \A e \in events : f[e] = NoTick \/ f[e].symbol = e.symbol}

\* tick_to_query_lag and fair of an event from the tick it joined
batch_joined_lf(event, tick, tick_lag_tolerance) ==
    IF tick = NoTick
    THEN [tick_time |-> Null, tick_to_query_lag |-> Null, fair |-> Null]
    ELSE [tick_time |-> Number(tick.tick_time),
          tick_to_query_lag |-> Number(event.query_time - tick.tick_time),
          fair |-> IF tick.tick_time + tick_lag_tolerance >= event.query_time
                   THEN Number(tick.fair) ELSE Null]

\* append_cols of query_batch: one row per (row_id, return_col_name)
batch_append_cols(events, join, tick_lag_tolerance) ==
    {[row_id |-> s.row_id, return_col_name |-> s.return_col_name,
      cols |-> append_cols(
          batch_joined_lf(s, join[s], tick_lag_tolerance),
          LET e == CHOOSE x \in events : /\ x.row_id = s.row_id /\ x.pos = s.pos
                                         /\ x.query_type = "end"
          IN  batch_joined_lf(e, join[e], tick_lag_tolerance))] :
        s \in {x \in events : x.query_type = "start"}}

\* what query_batch hands back: an exception, or the tuple of the return
\* statement that precedes the pivot to wide columns
BatchRaised(exc) ==
    [kind |-> "raised", exc |-> exc, mark_exprs |-> <<>>, append_cols |-> {},
     query_lf_withidx |-> <<>>]

\* ReturnsEngine.query_batch, given the join join_asof produced
query_batch(rows, marks, tick_lag_tolerance, filter_by_query_dates, join) ==
    IF marks = <<>> THEN BatchRaised("ValueError")
    ELSE IF batch_dates_raise(rows, marks, filter_by_query_dates)
    THEN BatchRaised("TypeError")
    ELSE [kind |-> "tuple", exc |-> "", mark_exprs |-> marks,
          append_cols |-> batch_append_cols(batch_long_query(rows, marks), join,
                                            tick_lag_tolerance),
          query_lf_withidx |-> [i \in DOMAIN rows |->
              [row_id |-> i - 1, symbol |-> rows[i].symbol,
               start_time |-> rows[i].start_time]]]

MarkOffsets == {0, 5}

\* the mark_exprs a caller passes: none, one entry "a", or "a" then "b"
MarkExprs ==
    {<<>>}
    \cup {<<[name |-> "a", offset |-> o, mark_duration |-> d]>> :
            o \in MarkOffsets, d \in MarkDurations}
    \cup {<<[name |-> "a", offset |-> o1, mark_duration |-> d1],
            [name |-> "b", offset |-> o2, mark_duration |-> d2]>> :
            o1 \in MarkOffsets, d1 \in MarkDurations,
            o2 \in MarkOffsets, d2 \in MarkDurations}

BatchFrames == UNION {[1..n -> QueryRows] : n \in 0..MaxBatchRows}

\* a caller runs query_batch on a frame
QueryBatch(rows, marks, tick_lag_tolerance, filter_by_query_dates) ==
    /\ rqCall.op = "none"
    /\ rqCall' = [op |-> "query_batch", rows |-> rows, mark_exprs |-> marks,
                  mark_duration |-> 0, tick_lag_tolerance |-> tick_lag_tolerance,
                  filter_by_query_dates |-> filter_by_query_dates]
    /\ \E join \in BatchJoins(batch_long_query(rows, marks),
                              batch_inrange_db(rqDb, rows, marks, filter_by_query_dates)) :
          rqOut' = query_batch(rows, marks, tick_lag_tolerance,
                               filter_by_query_dates, join)
    /\ UNCHANGED <<rqDb, rqOthers>>

NextBatch ==
    \/ \E rows \in BatchFrames, marks \in MarkExprs, tol \in Tolerances, f \in BOOLEAN :
          QueryBatch(rows, marks, tol, f)
    \/ QueryReturn

SpecBatch == InitQuery /\ [][NextBatch]_vars

\* the rows of a frame with start_time replaced by the start expression of
\* a mark
MarkRows(rows, mark) ==
    [i \in DOMAIN rows |->
        [symbol |-> rows[i].symbol, start_time |-> rows[i].start_time + mark.offset]]

\* C22: for every entry k -> spec of mark_exprs, query_batch returns the
\* query rows with columns suffixed _k whose values are those of the columns
\* query(spec) produces.
C22_BatchEqualsQuery ==
    (rqCall.op = "query_batch" /\ rqCall.mark_exprs # <<>>) =>
        /\ rqOut.kind = "frame"
        /\ Len(rqOut.rows) = Len(rqCall.rows)
        /\ \A j \in DOMAIN rqCall.mark_exprs :
              LET mark == rqCall.mark_exprs[j]
                  single == query(rqDb, MarkRows(rqCall.rows, mark), mark.mark_duration,
                                  rqCall.tick_lag_tolerance, rqCall.filter_by_query_dates)
              IN  \A i \in DOMAIN rqCall.rows :
                      rqOut.rows[i].cols[mark.name] = single[i].cols

(***************************************************************************)
(* SpecGrid: grid_query                                                    *)
(*                                                                         *)
(* The frame is a sequence of trades [symbol, date, time], in the order    *)
(* of its rows.  A row of the grid carries, for all the aggregates of      *)
(* grid_columns, the times of the trades they are computed from.           *)
(***************************************************************************)
\* the positions of the trades of one group, in the order of the frame
GroupOf(lf, key, every, label_offset) ==
    {i \in DOMAIN lf :
        /\ lf[i].symbol = key.symbol
        /\ lf[i].date = key.date
        /\ truncate(lf[i].time, every) + label_offset = key.time}

\* group_by('symbol', 'date', truncate(time) + label_offset).agg(grid_columns())
grid_rows(lf, every, label_offset) ==
    LET keys == {[symbol |-> lf[i].symbol, date |-> lf[i].date,
                  time |-> truncate(lf[i].time, every) + label_offset] : i \in DOMAIN lf}
    IN  {[symbol |-> k.symbol, date |-> k.date, time |-> k.time,
          trade_count |-> Cardinality(GroupOf(lf, k, every, label_offset)),
          aggregated |-> {lf[i].time : i \in GroupOf(lf, k, every, label_offset)},
          last_event_time |->
              lf[CHOOSE i \in GroupOf(lf, k, every, label_offset) :
                     \A j \in GroupOf(lf, k, every, label_offset) : j <= i].time] :
            k \in keys}

\* a grid whose buckets are labelled by their start
grid_query_bucket_start(lf, every) == grid_rows(lf, every, 0)

\* grid_query(lf, grid_interval)
grid_query(lf, every) == grid_rows(lf, every, every)

\* times of trades: 22:55, 23:00, 23:29, 23:30 and 23:59 of day 0
TradeTimes == {1375, 1380, 1409, 1410, 1439}

GridIntervals == {30, 60}

Trades == [symbol : {"BTC", "ETH"}, date : {0}, time : TradeTimes]

\* the frames: up to MaxTrades trades, in any order
TradeFrames == UNION {[1..n -> Trades] : n \in 0..MaxTrades}

GridQuery(lf, every) ==
    /\ gqCall.op = "none"
    /\ gqCall' = [op |-> "grid_query", lf |-> lf, grid_interval |-> every]
    /\ \E g \in {grid_query(lf, every)} : gqOut' = g
    /\ UNCHANGED gqOthers

\* the caller is done with the grid
GridReturn ==
    /\ gqCall.op = "grid_query"
    /\ gqCall' = NoGridCall
    /\ gqOut' = {}
    /\ UNCHANGED gqOthers

InitGrid ==
    /\ gqCall = NoGridCall /\ gqOut = {}
    /\ CaIdle /\ MdIdle /\ PpIdle /\ KwIdle /\ RqIdle /\ CcIdle
    /\ DsIdle /\ PmIdle /\ SvIdle

NextGrid ==
    \/ \E lf \in TradeFrames, every \in GridIntervals : GridQuery(lf, every)
    \/ GridReturn

SpecGrid == InitGrid /\ [][NextGrid]_vars

\* C23: a grid row at t aggregates exactly the trades of its (symbol, date)
\* with time in [t - D, t); every trade is in the row of its bucket's end,
\* a trade on a boundary b in the row b + D; and t - D <= last_event_time < t.
C23_BucketEnd ==
    gqCall.op = "grid_query" =>
        LET lf == gqCall.lf
            D  == gqCall.grid_interval
        IN  /\ \A row \in gqOut :
                  /\ row.aggregated =
                        {lf[i].time : i \in {j \in DOMAIN lf :
                            /\ lf[j].symbol = row.symbol /\ lf[j].date = row.date
                            /\ row.time - D <= lf[j].time /\ lf[j].time < row.time}}
                  /\ row.aggregated # {}
                  /\ row.time - D <= row.last_event_time
                  /\ row.last_event_time < row.time
                  /\ row.time % D = 0
            /\ \A i \in DOMAIN lf :
                  /\ Cardinality({row \in gqOut :
                        /\ row.symbol = lf[i].symbol /\ row.date = lf[i].date
                        /\ lf[i].time \in row.aggregated}) = 1
                  /\ lf[i].time % D = 0 =>
                        \E row \in gqOut :
                            /\ row.symbol = lf[i].symbol /\ row.time = lf[i].time + D
                            /\ lf[i].time \in row.aggregated

\* a frame with a trade on a boundary and two trades in one bucket, the
\* later one first
C23_Witness ==
    /\ gqCall.op = "grid_query"
    /\ \E i \in DOMAIN gqCall.lf : gqCall.lf[i].time % gqCall.grid_interval = 0
    /\ \E row \in gqOut :
          /\ row.trade_count = 2
          /\ \E t \in row.aggregated : t > row.last_event_time

(***************************************************************************)
(* SpecCache: create_ctdp_cache and delete_cache on one cache_dir          *)
(***************************************************************************)
\* the files create_ctdp_cache writes
CacheFiles == {"data.parquet", "metadata.json", "filters.parquet"}

\* shutil.rmtree(cache_dir)
rmtree(dir) == NoDir

\* create_ctdp_cache: what is at cache_dir afterwards, and how the call
\* ended.  duplicates: the output names are not unique; fails: the step of
\* the try block that raises
create_ctdp_cache(dir, duplicates, fails) ==
    IF duplicates THEN [dir |-> dir, out |-> "ValueError"]
    ELSE IF dir.kind = "file" THEN [dir |-> dir, out |-> "FileExistsError"]
    ELSE IF fails # "nothing"
         THEN [dir |-> rmtree([kind |-> "dir", files |-> dir.files]),
               out |-> "ValueError"]
    ELSE [dir |-> [kind |-> "dir", files |-> dir.files \cup CacheFiles],
          out |-> "returned"]

\* what can be at cache_dir before the first call
PriorDirs ==
    {NoDir, [kind |-> "file", files |-> {}]}
    \cup {[kind |-> "dir", files |-> F] : F \in SUBSET (CacheFiles \cup {"notes.txt", "plot.html"})}

FailingSteps == {"nothing", "sink_parquet", "metadata.save", "write_parquet"}

CreateCache(duplicates, fails) ==
    /\ ccCall' = [op |-> "create_ctdp_cache", duplicates |-> duplicates, fails |-> fails]
    /\ \E r \in {create_ctdp_cache(ccDir, duplicates, fails)} :
          /\ ccDir' = r.dir
          /\ ccOut' = r.out
    /\ UNCHANGED ccOthers

\* delete_cache(cache_dir)
DeleteCache ==
    /\ ccCall' = [op |-> "delete_cache", duplicates |-> FALSE, fails |-> "nothing"]
    /\ ccDir' = IF ccDir.kind = "dir" THEN rmtree(ccDir) ELSE ccDir
    /\ ccOut' = IF ccDir.kind = "file" THEN "NotADirectoryError" ELSE "returned"
    /\ UNCHANGED ccOthers

InitCache ==
    /\ ccDir \in PriorDirs
    /\ ccCall = NoCacheCall /\ ccOut = "none"
    /\ CaIdle /\ MdIdle /\ PpIdle /\ KwIdle /\ RqIdle /\ GqIdle
    /\ DsIdle /\ PmIdle /\ SvIdle

NextCache ==
    \/ \E duplicates \in BOOLEAN, fails \in FailingSteps : CreateCache(duplicates, fails)
    \/ DeleteCache

SpecCache == InitCache /\ [][NextCache]_vars

\* C25: whenever create_ctdp_cache raises, no directory remains at
\* cache_dir, whatever was there before the call.
C25_NoDirectoryAfterRaise ==
    (ccCall.op = "create_ctdp_cache" /\ ccOut # "returned") => ccDir.kind # "dir"

=============================================================================
